---------------------------- MODULE Spec2Model ----------------------------
(***************************************************************************)
(* A model of the monkeyLang toolchain: the bytecode encoding (package     *)
(* code), the compiler, the stack virtual machine and the tree-walking     *)
(* evaluator.  Go slices are 0-based and TLA+ sequences 1-based: the Go    *)
(* index i is the TLA+ index i + 1 throughout.                             *)
(***************************************************************************)
EXTENDS Integers, Sequences, FiniteSets, TLC

VARIABLES
    cOp,          \* code.Make: the opcode argument
    cOperands,    \* code.Make: the operands argument
    cIns,         \* the instruction Make returned
    cRead,        \* what ReadOperands returned: [operands, n]
    cPc,          \* position of the encode/decode round trip
    bytecode,     \* compiler.Bytecode handed to vm.New: [Instructions, Constants]
    pc,           \* position of the run: "compiled", "running", "returned", "panicked"
    constants,    \* VM.constants
    instructions, \* VM.instructions: the main program
    stack,        \* VM.stack: the slots written so far, by Go index; the rest are nil
    sp,           \* VM.sp
    frames,       \* the call frames, frames[1] the top-level one
    framesIndex,  \* number of frames in use
    globals,      \* the globals written so far, by index
    heap,         \* number of objects allocated by the run (the next fresh address)
    lastPopped,   \* history: the object the latest pop returned, until a push
    executed,     \* history: the instruction just executed and the operands it popped
    runErr,       \* the error Run returned ("" is nil)
    program,      \* the *ast.Program the parser returned
    evaluated,    \* the object Eval returned for the program
    compiler,     \* the Compiler after Compile(program)
    lexer,        \* the Lexer: [input, position, readPosition, ch], and the token read last
    parser,       \* the Parser: its token source l, curToken, peekToken, errors
    env,          \* the Environments made so far, and the latest call on them
    symbols,      \* the SymbolTable a caller holds, and the latest call on it
    repl          \* what a read-compile loop keeps between its lines

codecVars == <<cOp, cOperands, cIns, cRead, cPc>>

vmVars == <<constants, instructions, stack, sp, frames, framesIndex, globals, heap,
            lastPopped, executed, runErr>>

pipeVars == <<program, evaluated, compiler>>

frontVars == <<lexer, parser, env, symbols, repl>>

vars == <<cOp, cOperands, cIns, cRead, cPc, bytecode, pc, constants, instructions,
          stack, sp, frames, framesIndex, globals, heap, lastPopped, executed, runErr,
          program, evaluated, compiler, lexer, parser, env, symbols, repl>>

-----------------------------------------------------------------------------
(* Package code: opcodes and their definitions.                            *)

OpConstant == 0
OpAdd == 1
OpPop == 2
OpSub == 3
OpMul == 4
OpDiv == 5
OpTrue == 6
OpFalse == 7
OpEqual == 8
OpNotEqual == 9
OpGreaterThan == 10
OpMinus == 11
OpBang == 12
OpJumpNotTruthy == 13
OpJump == 14
OpNull == 15
OpGetGlobal == 16
OpSetGlobal == 17
OpArray == 18
OpHash == 19
OpIndex == 20
OpCall == 21
OpReturnValue == 22
OpReturn == 23

\* var definitions = map[Opcode]*Definition{...}
definitions ==
    (OpConstant :> [Name |-> "OpConstant", OperandWidths |-> <<2>>]) @@
    (OpAdd :> [Name |-> "OpAdd", OperandWidths |-> <<>>]) @@
    (OpPop :> [Name |-> "OpPop", OperandWidths |-> <<>>]) @@
    (OpSub :> [Name |-> "OpSub", OperandWidths |-> <<>>]) @@
    (OpMul :> [Name |-> "OpMul", OperandWidths |-> <<>>]) @@
    (OpDiv :> [Name |-> "OpDiv", OperandWidths |-> <<>>]) @@
    (OpTrue :> [Name |-> "OpTrue", OperandWidths |-> <<>>]) @@
    (OpFalse :> [Name |-> "OpFalse", OperandWidths |-> <<>>]) @@
    (OpEqual :> [Name |-> "OpEqual", OperandWidths |-> <<>>]) @@
    (OpNotEqual :> [Name |-> "OpNotEqual", OperandWidths |-> <<>>]) @@
    (OpGreaterThan :> [Name |-> "OpGreaterThan", OperandWidths |-> <<>>]) @@
    (OpMinus :> [Name |-> "OpMinus", OperandWidths |-> <<>>]) @@
    (OpBang :> [Name |-> "OpBang", OperandWidths |-> <<>>]) @@
    (OpJumpNotTruthy :> [Name |-> "OpJumpNotTruthy", OperandWidths |-> <<2>>]) @@
    (OpJump :> [Name |-> "OpJump", OperandWidths |-> <<2>>]) @@
    (OpNull :> [Name |-> "OpNull", OperandWidths |-> <<>>]) @@
    (OpGetGlobal :> [Name |-> "OpGetGlobal", OperandWidths |-> <<2>>]) @@
    (OpSetGlobal :> [Name |-> "OpSetGlobal", OperandWidths |-> <<2>>]) @@
    (OpArray :> [Name |-> "OpArray", OperandWidths |-> <<2>>]) @@
    (OpHash :> [Name |-> "OpHash", OperandWidths |-> <<2>>]) @@
    (OpIndex :> [Name |-> "OpIndex", OperandWidths |-> <<>>]) @@
    (OpCall :> [Name |-> "OpCall", OperandWidths |-> <<>>]) @@
    (OpReturnValue :> [Name |-> "OpReturnValue", OperandWidths |-> <<>>]) @@
    (OpReturn :> [Name |-> "OpReturn", OperandWidths |-> <<>>])

\* The opcodes after OpReturn, and their operand widths.
OpGetLocal == 24
OpSetLocal == 25
OpGetBuiltin == 26
OpClosure == 27
OpGetFree == 28
OpCurrentClosure == 29

laterDefinitions ==
    (OpGetLocal :> [Name |-> "OpGetLocal", OperandWidths |-> <<1>>]) @@
    (OpSetLocal :> [Name |-> "OpSetLocal", OperandWidths |-> <<1>>]) @@
    (OpGetBuiltin :> [Name |-> "OpGetBuiltin", OperandWidths |-> <<1>>]) @@
    (OpClosure :> [Name |-> "OpClosure", OperandWidths |-> <<2, 1>>]) @@
    (OpGetFree :> [Name |-> "OpGetFree", OperandWidths |-> <<1>>]) @@
    (OpCurrentClosure :> [Name |-> "OpCurrentClosure", OperandWidths |-> <<>>])

\* definitions[op] for every opcode the compiler emits.
allDefinitions == definitions @@ laterDefinitions

\* uint16(o): Go's conversion of an int to 16 bits keeps o modulo 2^16.
Uint16(o) == o % 65536

\* binary.BigEndian.PutUint16: the high byte first.
PutUint16(v) == <<v \div 256, v % 256>>

\* binary.BigEndian.Uint16(ins): the first two bytes, high byte first.
ReadUint16(ins) == ins[1] * 256 + ins[2]

\* make([]byte, n): n zero bytes.
ZeroBytes(n) == [i \in 1..n |-> 0]

\* An operand encoding that writes the low byte first.
EncodeOperandLittleEndian(width, o) ==
    IF width = 2 THEN <<Uint16(o) % 256, Uint16(o) \div 256>> ELSE ZeroBytes(width)

\* The body of Make's loop for one operand: only width 2 is written
\* (switch width { case 2: ... }); offset += width either way.
EncodeOperand(width, o) ==
    IF width = 2 THEN PutUint16(Uint16(o)) ELSE ZeroBytes(width)

RECURSIVE EncodeOperands(_, _, _)
\* The operand bytes of an instruction: operand i at the offset the widths
\* before it give; a width with no operand stays zero.
EncodeOperands(widths, operands, i) ==
    IF i > Len(widths) THEN <<>>
    ELSE (IF i <= Len(operands)
            THEN EncodeOperand(widths[i], operands[i])
            ELSE ZeroBytes(widths[i]))
         \o EncodeOperands(widths, operands, i + 1)

\* func Make(op Opcode, operands ...int) []byte, for at most as many
\* operands as the definition has widths (more make Go index
\* def.OperandWidths out of range).
Make(op, operands) ==
    IF op \notin DOMAIN allDefinitions THEN <<>>
    ELSE <<op>> \o EncodeOperands(allDefinitions[op].OperandWidths, operands, 1)

\* The tail ins[offset:] of a Go slice, offset 0-based.
SliceFrom(ins, offset) == SubSeq(ins, offset + 1, Len(ins))

RECURSIVE WidthSum(_, _)
\* The offset of operand i (1-based): the widths before it, summed.
WidthSum(widths, i) ==
    IF i <= 1 THEN 0 ELSE widths[i - 1] + WidthSum(widths, i - 1)

\* The body of ReadOperands' loop for one operand: only width 2 is read.
DecodeOperand(width, ins, offset) ==
    IF width = 2 THEN ReadUint16(SliceFrom(ins, offset)) ELSE 0

\* func ReadOperands(def *Definition, ins Instructions) ([]int, int)
ReadOperands(def, ins) ==
    [operands |-> [i \in 1..Len(def.OperandWidths) |->
                     DecodeOperand(def.OperandWidths[i], ins,
                                   WidthSum(def.OperandWidths, i))],
     n |-> WidthSum(def.OperandWidths, Len(def.OperandWidths) + 1)]

RECURSIVE SeqsOfLen(_, _)
\* All sequences of length n over S.
SeqsOfLen(S, n) ==
    IF n = 0 THEN {<<>>}
    ELSE {Append(s, x) : s \in SeqsOfLen(S, n - 1), x \in S}

-----------------------------------------------------------------------------
(* Package object.  An object is a record; id stands for its address, so   *)
(* that Go's == on two objects (same dynamic type, same pointer) is        *)
(* equality of ids.                                                        *)

INTEGER_OBJ == "INTEGER"
BOOLEAN_OBJ == "BOOLEAN"
NULL_OBJ == "NULL"
ERROR_OBJ == "ERROR"
STRING_OBJ == "STRING"
COMPILED_FUNCTION_OBJ == "COMPILED_FUNCTION_OBJ"
CLOSURE_OBJ == "CLOSURE"

NoFn == [Instructions |-> <<>>, NumLocals |-> 0, NumParameters |-> 0]

\* The nil interface value: what a slot never written holds.
Nil ==
    [Type |-> "nil", IntValue |-> 0, BoolValue |-> FALSE, StrValue |-> "",
     Fn |-> NoFn, Free |-> <<>>, id |-> 0]

\* &object.Integer{Value: n} at address id
Integer(n, id) == [Nil EXCEPT !.Type = INTEGER_OBJ, !.IntValue = n, !.id = id]

\* &object.String{Value: s} at address id
String(s, id) == [Nil EXCEPT !.Type = STRING_OBJ, !.StrValue = s, !.id = id]

\* &object.Error{Message: s} at address id
Error(s, id) == [Nil EXCEPT !.Type = ERROR_OBJ, !.StrValue = s, !.id = id]

\* &object.CompiledFunction{Instructions, NumLocals, NumParameters}
CompiledFunction(ins, numLocals, numParameters, id) ==
    [Nil EXCEPT !.Type = COMPILED_FUNCTION_OBJ,
                !.Fn = [Instructions |-> ins, NumLocals |-> numLocals,
                        NumParameters |-> numParameters],
                !.id = id]

\* &object.Closure{Fn: fn, Free: free} at address id
Closure(fn, free, id) ==
    [Nil EXCEPT !.Type = CLOSURE_OBJ, !.Fn = fn.Fn, !.Free = free, !.id = id]

\* The singletons: True = &object.Boolean{Value: true}, False likewise.
True == [Nil EXCEPT !.Type = BOOLEAN_OBJ, !.BoolValue = TRUE, !.id = 1]

False == [Nil EXCEPT !.Type = BOOLEAN_OBJ, !.BoolValue = FALSE, !.id = 2]

\* The singleton Null = &object.Null{}.
Null == [Nil EXCEPT !.Type = NULL_OBJ, !.id = 3]

\* The addresses 1, 2 and 3 are the singletons'; the constants of a
\* Bytecode follow them, and the objects a run allocates follow those.
SingletonCount == Cardinality({True.id, False.id, Null.id})

\* func nativeBoolToBooleanObject(input bool) *object.Boolean
nativeBoolToBooleanObject(input) == IF input THEN True ELSE False

\* Inspect() of each object type; calling it on nil is a nil dereference.
Inspect(o) ==
    CASE o.Type = INTEGER_OBJ -> ToString(o.IntValue)
      [] o.Type = BOOLEAN_OBJ -> (IF o.BoolValue THEN "true" ELSE "false")
      [] o.Type = NULL_OBJ -> "null"
      [] o.Type = STRING_OBJ -> o.StrValue
      [] o.Type = ERROR_OBJ -> "ERROR: " \o o.StrValue
      [] OTHER -> "panic: nil pointer dereference"

-----------------------------------------------------------------------------
(* Package ast.  A node is a record; its field node is the Go type.  The   *)
(* Value fields of the literals are named after their Go type, and an      *)
(* *ast.Identifier is given by its name.                                   *)

IntegerLiteral(v) == [node |-> "IntegerLiteral", IntValue |-> v]

Boolean(b) == [node |-> "Boolean", BoolValue |-> b]

Identifier(name) == [node |-> "Identifier", Name |-> name]

PrefixExpression(operator, right) ==
    [node |-> "PrefixExpression", Operator |-> operator, Right |-> right]

InfixExpression(left, operator, right) ==
    [node |-> "InfixExpression", Left |-> left, Operator |-> operator,
     Right |-> right]

ExpressionStatement(expression) ==
    [node |-> "ExpressionStatement", Expression |-> expression]

LetStatement(name, value) ==
    [node |-> "LetStatement", Name |-> name, Value |-> value]

Program(statements) == [node |-> "Program", Statements |-> statements]

BlockStatement(statements) == [node |-> "BlockStatement", Statements |-> statements]

ReturnStatement(returnValue) == [node |-> "ReturnStatement", ReturnValue |-> returnValue]

\* Parameters are given by their names.
FunctionLiteral(parameters, body, name) ==
    [node |-> "FunctionLiteral", Parameters |-> parameters, Body |-> body,
     FnName |-> name]

\* Value and Token.Literal are both the characters between the quotes.
StringLiteral(v) == [node |-> "StringLiteral", StrValue |-> v]

\* Pairs is a Go map from key node to value node.  A key node is a
\* pointer: addr tells two key nodes of the same content apart.  Here Pairs
\* is the sequence of its entries in the order one range over it gives.
HashLiteral(pairs) == [node |-> "HashLiteral", Pairs |-> pairs]

\* One entry of Pairs.
Pair(addr, key, value) == [addr |-> addr, Key |-> key, Value |-> value]

\* func (n *T) String() string, for the nodes that are keys here.
NodeString(e) ==
    CASE e.node = "IntegerLiteral" -> ToString(e.IntValue)
      [] e.node = "Boolean" -> IF e.BoolValue THEN "true" ELSE "false"
      [] e.node = "StringLiteral" -> e.StrValue
      [] e.node = "Identifier" -> e.Name

\* Arguments is the sequence of the argument expressions.
CallExpression(function, arguments) ==
    [node |-> "CallExpression", Function |-> function, Arguments |-> arguments]

\* Alternative is <<>> for nil and <<block>> for a pointer to a block.
IfExpression(condition, consequence, alternative) ==
    [node |-> "IfExpression", Condition |-> condition,
     Consequence |-> consequence, Alternative |-> alternative]

-----------------------------------------------------------------------------
(* Package compiler: the symbol table.  Outer is <<>> for nil and <<t>>    *)
(* for a pointer to the table t.                                           *)

GlobalScope == "GLOBAL"
LocalScope == "LOCAL"

\* func NewSymbolTable() *SymbolTable
NewSymbolTable == [Outer |-> <<>>, store |-> <<>>, numDefinitions |-> 0]

\* func NewEnclosedSymbolTable(outer *SymbolTable) *SymbolTable
NewEnclosedSymbolTable(outer) == [NewSymbolTable EXCEPT !.Outer = <<outer>>]

\* The symbol Define makes for name in the table s.
DefinedSymbol(s, name) ==
    [Name |-> name,
     Scope |-> IF s.Outer = <<>> THEN GlobalScope ELSE LocalScope,
     Index |-> s.numDefinitions]

\* A Define that does not count the definition.
DefineUncounted(s, name) ==
    [s EXCEPT !.store = (name :> DefinedSymbol(s, name)) @@ s.store]

\* func (s *SymbolTable) Define(name string) Symbol: the table afterwards.
Define(s, name) ==
    [s EXCEPT !.store = (name :> DefinedSymbol(s, name)) @@ s.store,
              !.numDefinitions = s.numDefinitions + 1]

\* The scope of the name a function literal is bound to.
FunctionScope == "FUNCTION"

\* DefineFunctionName(name): a symbol of scope Function and index 0; it is
\* not one of the scope's definitions.
DefineFunctionName(s, name) ==
    [s EXCEPT !.store = (name :> [Name |-> name, Scope |-> FunctionScope,
                                  Index |-> 0]) @@ s.store]

\* s.FreeSymbols: the symbols Resolve recorded as free in the scope.
\* Resolve, below, records none.
FreeSymbols(s) == <<>>

NoSymbol == [Name |-> "", Scope |-> "", Index |-> 0]

RECURSIVE ResolveOuterFirst(_, _)
\* A Resolve that asks the outer table before its own store.
ResolveOuterFirst(s, name) ==
    LET outer == IF s.Outer # <<>> THEN ResolveOuterFirst(s.Outer[1], name)
                 ELSE [symbol |-> NoSymbol, ok |-> FALSE]
    IN  IF outer.ok THEN outer
        ELSE IF name \in DOMAIN s.store THEN [symbol |-> s.store[name], ok |-> TRUE]
        ELSE [symbol |-> NoSymbol, ok |-> FALSE]

RECURSIVE Resolve(_, _)
\* func (s *SymbolTable) Resolve(name string) (Symbol, bool)
Resolve(s, name) ==
    IF name \in DOMAIN s.store THEN [symbol |-> s.store[name], ok |-> TRUE]
    ELSE IF s.Outer # <<>> THEN Resolve(s.Outer[1], name)
    ELSE [symbol |-> NoSymbol, ok |-> FALSE]

-----------------------------------------------------------------------------
(* Package compiler.  Compile is an operator on the record c of the        *)
(* compiler's fields; c.err is the error it returns ("" is nil).           *)

\* EmittedInstruction{}
NoInstruction == [Opcode |-> OpConstant, Position |-> 0]

\* CompilationScope{instructions: code.Instructions{}, ...}
NewScope ==
    [instructions |-> <<>>, lastInstruction |-> NoInstruction,
     previousInstruction |-> NoInstruction]

\* func New() *Compiler, with no builtins to define.
\* functions is not a field of the Compiler: it keeps, for each function
\* literal compiled, what the compiler knew of its scope when it left it.
NewCompiler ==
    [constants |-> <<>>, symbolTable |-> NewSymbolTable,
     scopes |-> <<NewScope>>, scopeIndex |-> 0, err |-> "",
     functions |-> <<>>]

\* func (c *Compiler) currentInstructions() code.Instructions
currentInstructions(c) == c.scopes[c.scopeIndex + 1].instructions

\* func (c *Compiler) Bytecode() *Bytecode
Bytecode(c) == [Instructions |-> currentInstructions(c), Constants |-> c.constants]

\* An addConstant that puts the object first.
addConstantFirst(c, obj) ==
    [c EXCEPT !.constants =
        <<[obj EXCEPT !.id = SingletonCount + Len(c.constants) + 1]>> \o c.constants]

\* func (c *Compiler) addConstant(obj object.Object) int: the compiler
\* afterwards; the index returned is len(c.constants) - 1.  The object is a
\* new one, at the next address.
addConstant(c, obj) ==
    [c EXCEPT !.constants =
        Append(c.constants, [obj EXCEPT !.id = SingletonCount + Len(c.constants) + 1])]

\* func (c *Compiler) addInstruction(ins []byte) int
addInstruction(c, ins) ==
    [c EXCEPT !.scopes[c.scopeIndex + 1].instructions = currentInstructions(c) \o ins]

\* func (c *Compiler) setLastInstruction(op code.Opcode, pos int)
setLastInstruction(c, op, pos) ==
    [c EXCEPT !.scopes[c.scopeIndex + 1].previousInstruction =
                  c.scopes[c.scopeIndex + 1].lastInstruction,
              !.scopes[c.scopeIndex + 1].lastInstruction =
                  [Opcode |-> op, Position |-> pos]]

\* func (c *Compiler) emit(op code.Opcode, operands ...int) int: the
\* compiler afterwards; the position returned is lastInstruction.Position.
emit(c, op, operands) ==
    setLastInstruction(addInstruction(c, Make(op, operands)), op,
                       Len(currentInstructions(c)))

\* func (c *Compiler) lastInstructionIs(op code.Opcode) bool
lastInstructionIs(c, op) ==
    IF Len(currentInstructions(c)) = 0 THEN FALSE
    ELSE c.scopes[c.scopeIndex + 1].lastInstruction.Opcode = op

\* func (c *Compiler) removeLastPop()
removeLastPop(c) ==
    LET last == c.scopes[c.scopeIndex + 1].lastInstruction
        previous == c.scopes[c.scopeIndex + 1].previousInstruction
    IN  [c EXCEPT !.scopes[c.scopeIndex + 1].instructions =
                      SubSeq(currentInstructions(c), 1, last.Position),
                  !.scopes[c.scopeIndex + 1].lastInstruction = previous]

\* func (c *Compiler) replaceInstruction(pos int, newInstruction []byte)
replaceInstruction(c, pos, newInstruction) ==
    [c EXCEPT !.scopes[c.scopeIndex + 1].instructions =
        [i \in 1..Len(@) |->
            IF pos + 1 <= i /\ i <= pos + Len(newInstruction)
              THEN newInstruction[i - pos] ELSE @[i]]]

\* A changeOperand that leaves the instruction as it was emitted.
changeOperandKeep(c, opPos, operand) == c

\* A changeOperand that writes the position one past the one given.
changeOperandOnePast(c, opPos, operand) ==
    LET op == currentInstructions(c)[opPos + 1]
    IN  replaceInstruction(c, opPos, Make(op, <<operand + 1>>))

\* func (c *Compiler) changeOperand(opPos int, operand int)
changeOperand(c, opPos, operand) ==
    LET op == currentInstructions(c)[opPos + 1]
    IN  replaceInstruction(c, opPos, Make(op, <<operand>>))

\* func (c *Compiler) enterScope()
enterScope(c) ==
    [c EXCEPT !.scopes = Append(@, NewScope),
              !.scopeIndex = @ + 1,
              !.symbolTable = NewEnclosedSymbolTable(@)]

\* func (c *Compiler) leaveScope() code.Instructions: the compiler
\* afterwards; the instructions returned are currentInstructions before.
leaveScope(c) ==
    [c EXCEPT !.scopes = SubSeq(@, 1, Len(@) - 1),
              !.scopeIndex = @ - 1,
              !.symbolTable = @.Outer[1]]

\* A replaceLastPopWithReturn that renames the last instruction in the
\* scope's record and leaves the byte as it is.
replaceLastPopWithReturnRecordOnly(c) ==
    [c EXCEPT !.scopes[c.scopeIndex + 1].lastInstruction.Opcode = OpReturnValue]

\* func (c *Compiler) replaceLastPopWithReturn()
replaceLastPopWithReturn(c) ==
    LET lastPos == c.scopes[c.scopeIndex + 1].lastInstruction.Position
        c1 == replaceInstruction(c, lastPos, Make(OpReturnValue, <<>>))
    IN  [c1 EXCEPT !.scopes[c.scopeIndex + 1].lastInstruction.Opcode = OpReturnValue]

\* func (c *Compiler) loadSymbol(s Symbol); a scope with no case emits
\* nothing.
loadSymbol(c, sym) ==
    CASE sym.Scope = GlobalScope -> emit(c, OpGetGlobal, <<sym.Index>>)
      [] sym.Scope = LocalScope -> emit(c, OpGetLocal, <<sym.Index>>)
      [] sym.Scope = FunctionScope -> emit(c, OpCurrentClosure, <<>>)
      [] OTHER -> c

RECURSIVE loadSymbols(_, _, _)
\* for _, s := range freeSymbols { c.loadSymbol(s) }
loadSymbols(c, syms, i) ==
    IF i > Len(syms) THEN c ELSE loadSymbols(loadSymbol(c, syms[i]), syms, i + 1)

RECURSIVE DefineAll(_, _, _)
\* for _, p := range n.Parameters { c.symbolTable.Define(p.Value) }
DefineAll(s, names, i) ==
    IF i > Len(names) THEN s ELSE DefineAll(Define(s, names[i]), names, i + 1)

RECURSIVE DefinedAll(_, _, _)
\* The symbols those calls of Define return, in order.
DefinedAll(s, names, i) ==
    IF i > Len(names) THEN <<>>
    ELSE <<DefinedSymbol(s, names[i])>> \o DefinedAll(Define(s, names[i]), names, i + 1)

\* The opcode of an infix operator other than "<".
InfixOpcode ==
    ("+" :> OpAdd) @@ ("-" :> OpSub) @@ ("*" :> OpMul) @@ ("/" :> OpDiv) @@
    (">" :> OpGreaterThan) @@ ("==" :> OpEqual) @@ ("!=" :> OpNotEqual)

\* The opcode of a prefix operator.
PrefixOpcode == ("!" :> OpBang) @@ ("-" :> OpMinus)

RECURSIVE Compile(_, _)
RECURSIVE CompileStatements(_, _, _)
RECURSIVE CompileArguments(_, _, _)

\* The loop over the statements with the error of statement i dropped.
CompileStatementsOn(c, stmts, i) ==
    IF i > Len(stmts) THEN c
    ELSE CompileStatements(Compile(c, stmts[i]), stmts, i + 1)

\* case *ast.Program: each statement in turn, up to the first error.
CompileStatements(c, stmts, i) ==
    IF i > Len(stmts) THEN c
    ELSE LET c1 == Compile(c, stmts[i])
         IN  IF c1.err # "" THEN c1 ELSE CompileStatements(c1, stmts, i + 1)

\* An expression statement compiled with no OpPop after the expression.
CompileExpressionStatementNoPop(c, n) == Compile(c, n.Expression)

\* case *ast.ExpressionStatement
CompileExpressionStatement(c, n) ==
    LET c1 == Compile(c, n.Expression)
    IN  IF c1.err # "" THEN c1 ELSE emit(c1, OpPop, <<>>)

\* An infix case that compiles the left operand first for "<" too.
CompileInfixExpressionLeftFirst(c, n) ==
    LET c1 == Compile(c, n.Left)
        c2 == Compile(c1, n.Right)
    IN  IF c1.err # "" THEN c1
        ELSE IF c2.err # "" THEN c2
        ELSE IF n.Operator = "<" THEN emit(c2, OpGreaterThan, <<>>)
        ELSE IF n.Operator \in DOMAIN InfixOpcode
          THEN emit(c2, InfixOpcode[n.Operator], <<>>)
        ELSE [c2 EXCEPT !.err = "unknown operator " \o n.Operator]

\* case *ast.InfixExpression
CompileInfixExpression(c, n) ==
    IF n.Operator = "<"
      THEN LET c1 == Compile(c, n.Right)
               c2 == Compile(c1, n.Left)
           IN  IF c1.err # "" THEN c1
               ELSE IF c2.err # "" THEN c2
               ELSE emit(c2, OpGreaterThan, <<>>)
    ELSE LET c1 == Compile(c, n.Left)
             c2 == Compile(c1, n.Right)
         IN  IF c1.err # "" THEN c1
             ELSE IF c2.err # "" THEN c2
             ELSE IF n.Operator \in DOMAIN InfixOpcode
               THEN emit(c2, InfixOpcode[n.Operator], <<>>)
             ELSE [c2 EXCEPT !.err = "unknown operator " \o n.Operator]

\* case *ast.PrefixExpression
CompilePrefixExpression(c, n) ==
    LET c1 == Compile(c, n.Right)
    IN  IF c1.err # "" THEN c1
        ELSE IF n.Operator \in DOMAIN PrefixOpcode
          THEN emit(c1, PrefixOpcode[n.Operator], <<>>)
        ELSE [c1 EXCEPT !.err = "unknown operator " \o n.Operator]

\* A LetStatement case that compiles the value before it defines the name.
CompileLetStatementValueFirst(c, n) ==
    LET c1 == Compile(c, n.Value)
        symbol == DefinedSymbol(c1.symbolTable, n.Name)
        c2 == [c1 EXCEPT !.symbolTable = Define(c1.symbolTable, n.Name)]
    IN  IF c1.err # "" THEN c1
        ELSE IF symbol.Scope = GlobalScope
          THEN emit(c2, OpSetGlobal, <<symbol.Index>>)
        ELSE emit(c2, OpSetLocal, <<symbol.Index>>)

\* case *ast.LetStatement: the name is defined before the value is
\* compiled.
CompileLetStatement(c, n) ==
    LET symbol == DefinedSymbol(c.symbolTable, n.Name)
        c1 == Compile([c EXCEPT !.symbolTable = Define(c.symbolTable, n.Name)],
                      n.Value)
    IN  IF c1.err # "" THEN c1
        ELSE IF symbol.Scope = GlobalScope
          THEN emit(c1, OpSetGlobal, <<symbol.Index>>)
        ELSE emit(c1, OpSetLocal, <<symbol.Index>>)

\* case *ast.Identifier
CompileIdentifier(c, n) ==
    LET r == Resolve(c.symbolTable, n.Name)
    IN  IF ~r.ok THEN [c EXCEPT !.err = "undefined variable " \o n.Name]
        ELSE loadSymbol(c, r.symbol)

\* case *ast.FunctionLiteral.  An error in the body returns with the
\* function's scope still entered.
CompileFunctionLiteral(c, n) ==
    LET c1 == enterScope(c)
        c2 == IF n.FnName # ""
                THEN [c1 EXCEPT !.symbolTable = DefineFunctionName(@, n.FnName)]
              ELSE c1
        c3 == [c2 EXCEPT !.symbolTable = DefineAll(@, n.Parameters, 1)]
        c4 == Compile(c3, n.Body)
        c5 == IF lastInstructionIs(c4, OpPop) THEN replaceLastPopWithReturn(c4) ELSE c4
        c6 == IF ~lastInstructionIs(c5, OpReturnValue) THEN emit(c5, OpReturn, <<>>)
              ELSE c5
        freeSymbols == FreeSymbols(c6.symbolTable)
        numLocals == c6.symbolTable.numDefinitions
        fnInstructions == currentInstructions(c6)
        c7 == loadSymbols(leaveScope(c6), freeSymbols, 1)
        c8 == addConstant(c7, CompiledFunction(fnInstructions, numLocals,
                                               Len(n.Parameters), 0))
        fnIndex == Len(c8.constants) - 1
        c9 == emit(c8, OpClosure, <<fnIndex, Len(freeSymbols)>>)
    IN  IF c4.err # "" THEN c4
        ELSE [c9 EXCEPT !.functions =
                 Append(@, [fnIndex |-> fnIndex,
                            parameters |-> DefinedAll(c2.symbolTable, n.Parameters, 1),
                            freeSymbols |-> freeSymbols,
                            symbolTable |-> c6.symbolTable])]

\* OpCall argc as the VM reads it, with argc in one byte.  Make cannot
\* produce it: definitions gives OpCall no operand width, and Make writes
\* no operand of width 1.
MakeCall(argc) == <<OpCall, argc % 256>>

\* for _, a := range n.Arguments { c.Compile(a) }, from argument i on.
CompileArguments(c, args, i) ==
    IF i > Len(args) \/ c.err # "" THEN c
    ELSE CompileArguments(Compile(c, args[i]), args, i + 1)

\* case *ast.CallExpression: the callee, the arguments from left to right,
\* then OpCall with the number of arguments.
CompileCallExpression(c, n) ==
    LET c1 == Compile(c, n.Function)
        c2 == CompileArguments(c1, n.Arguments, 1)
    IN  IF c1.err # "" THEN c1
        ELSE IF c2.err # "" THEN c2
        ELSE setLastInstruction(addInstruction(c2, MakeCall(Len(n.Arguments))),
                                OpCall, Len(currentInstructions(c2)))

\* case *ast.ReturnStatement
CompileReturnStatement(c, n) ==
    LET c1 == Compile(c, n.ReturnValue)
    IN  IF c1.err # "" THEN c1 ELSE emit(c1, OpReturnValue, <<>>)

\* if c.lastInstructionIs(code.OpPop) { c.removeLastPop() }
StripLastPop(c) == IF lastInstructionIs(c, OpPop) THEN removeLastPop(c) ELSE c

\* case *ast.IfExpression: the two jumps are emitted with the operand 9999
\* and patched once the positions after the branches are known.
CompileIfExpression(c, n) ==
    LET c1 == Compile(c, n.Condition)
        c2 == emit(c1, OpJumpNotTruthy, <<9999>>)
        jumpNotTruthyPos == c2.scopes[c2.scopeIndex + 1].lastInstruction.Position
        c3 == Compile(c2, n.Consequence)
        c4 == emit(StripLastPop(c3), OpJump, <<9999>>)
        jumpPos == c4.scopes[c4.scopeIndex + 1].lastInstruction.Position
        c5 == changeOperand(c4, jumpNotTruthyPos, Len(currentInstructions(c4)))
        c6 == IF n.Alternative = <<>> THEN emit(c5, OpNull, <<>>)
              ELSE LET ca == Compile(c5, n.Alternative[1])
                   IN  IF ca.err # "" THEN ca ELSE StripLastPop(ca)
    IN  IF c1.err # "" THEN c1
        ELSE IF c3.err # "" THEN c3
        ELSE IF c6.err # "" THEN c6
        ELSE changeOperand(c6, jumpPos, Len(currentInstructions(c6)))

\* a < b for the Go strings that are key texts here: "0" < "1" < "2" < "3"
\* < "a" < "b" < "false" < "true", byte by byte.
TextOrder == <<"0", "1", "2", "3", "a", "b", "false", "true">>

TextRank(t) == CHOOSE i \in 1..Len(TextOrder) : TextOrder[i] = t

\* keys[i].String() < keys[j].String()
KeyLess(a, b) == TextRank(NodeString(a.Key)) < TextRank(NodeString(b.Key))

RECURSIVE SinkDown(_, _)
\* The inner loop of the insertion sort sort.Slice does on a short slice:
\* for j := i; j > 0 && less(j, j-1); j-- { swap(j, j-1) }
SinkDown(keys, j) ==
    IF j > 1 /\ KeyLess(keys[j], keys[j - 1])
      THEN SinkDown([keys EXCEPT ![j] = keys[j - 1], ![j - 1] = keys[j]], j - 1)
    ELSE keys

RECURSIVE SortKeys(_, _)
\* sort.Slice(keys, less), from index i on: for i := 1; i < n; i++ { ... }
SortKeys(keys, i) ==
    IF i > Len(keys) THEN keys ELSE SortKeys(SinkDown(keys, i), i + 1)

RECURSIVE CompilePairs(_, _, _)
\* for _, k := range keys { Compile(k); Compile(n.Pairs[k]) }
CompilePairs(c, keys, i) ==
    IF i > Len(keys) THEN c
    ELSE LET c1 == Compile(c, keys[i].Key)
             c2 == Compile(c1, keys[i].Value)
         IN  IF c1.err # "" THEN c1
             ELSE IF c2.err # "" THEN c2
             ELSE CompilePairs(c2, keys, i + 1)

\* case *ast.HashLiteral: the keys are collected in the order the range
\* over the map gives and then sorted by their String().
CompileHashLiteral(c, n) ==
    LET keys == SortKeys(n.Pairs, 2)
        c1 == CompilePairs(c, keys, 1)
    IN  IF c1.err # "" THEN c1 ELSE emit(c1, OpHash, <<Len(n.Pairs) * 2>>)

\* func (c *Compiler) Compile(node ast.Node) error
Compile(c, n) ==
    CASE n.node = "Program" -> CompileStatements(c, n.Statements, 1)
      [] n.node = "ExpressionStatement" -> CompileExpressionStatement(c, n)
      [] n.node = "InfixExpression" -> CompileInfixExpression(c, n)
      [] n.node = "IntegerLiteral" ->
           LET c1 == addConstant(c, Integer(n.IntValue, 0))
           IN  emit(c1, OpConstant, <<Len(c1.constants) - 1>>)
      [] n.node = "Boolean" ->
           IF n.BoolValue THEN emit(c, OpTrue, <<>>) ELSE emit(c, OpFalse, <<>>)
      [] n.node = "PrefixExpression" -> CompilePrefixExpression(c, n)
      [] n.node = "LetStatement" -> CompileLetStatement(c, n)
      [] n.node = "Identifier" -> CompileIdentifier(c, n)
      [] n.node = "IfExpression" -> CompileIfExpression(c, n)
      [] n.node = "BlockStatement" -> CompileStatements(c, n.Statements, 1)
      [] n.node = "FunctionLiteral" -> CompileFunctionLiteral(c, n)
      [] n.node = "StringLiteral" ->
           LET c1 == addConstant(c, String(n.StrValue, 0))
           IN  emit(c1, OpConstant, <<Len(c1.constants) - 1>>)
      [] n.node = "HashLiteral" -> CompileHashLiteral(c, n)
      [] n.node = "ReturnStatement" -> CompileReturnStatement(c, n)
      [] n.node = "CallExpression" -> CompileCallExpression(c, n)
      [] OTHER -> c

-----------------------------------------------------------------------------
(* Package vm.  The handlers are operators on a record v of the VM's       *)
(* fields; v.err is the error a handler returns ("" is nil) and v.panic    *)
(* says that Go panicked (an index out of range, a nil dereference, an     *)
(* integer division by zero).                                              *)

StackSize == 2048

\* The stack array is kept as its runs of equal consecutive slots, from
\* index 0: <<[o |-> x, n |-> 3], [o |-> y, n |-> 1]>> is x, x, x, y and nil
\* from index 4 on.  Neighbouring runs differ and no nil run ends the list,
\* so that equal arrays are equal values.
Run(o, n) == [o |-> o, n |-> n]

\* run followed by rest, kept in that form.
Cons(run, rest) ==
    IF run.n = 0 THEN rest
    ELSE IF rest = <<>> THEN (IF run.o = Nil THEN <<>> ELSE <<run>>)
    ELSE IF Head(rest).o = run.o
      THEN <<Run(run.o, run.n + Head(rest).n)>> \o Tail(rest)
    ELSE <<run>> \o rest

RECURSIVE StackAt(_, _)
\* vm.stack[i]
StackAt(stk, i) ==
    IF stk = <<>> THEN Nil
    ELSE IF i < Head(stk).n THEN Head(stk).o
    ELSE StackAt(Tail(stk), i - Head(stk).n)

RECURSIVE StackPut(_, _, _)
\* vm.stack[i] = o
StackPut(stk, i, o) ==
    IF stk = <<>> THEN Cons(Run(Nil, i), Cons(Run(o, 1), <<>>))
    ELSE IF i >= Head(stk).n
      THEN Cons(Head(stk), StackPut(Tail(stk), i - Head(stk).n, o))
    ELSE Cons(Run(Head(stk).o, i),
              Cons(Run(o, 1),
                   Cons(Run(Head(stk).o, Head(stk).n - i - 1), Tail(stk))))

\* A frame that does not keep the base pointer it is given.
NewFrameBaseZero(fn, basePointer) == [fn |-> fn, ip |-> -1, basePointer |-> 0]

\* func NewFrame(fn *object.CompiledFunction, basePointer int) *Frame; fn
\* is a pointer, here the address of the function called.
NewFrame(fn, basePointer) == [fn |-> fn, ip |-> -1, basePointer |-> basePointer]

\* The address that stands for the main program as the function of the
\* top-level frame; its instructions are vm.instructions.
MainFn == 0

\* The function a frame's fn points to: the callee of the call that pushed
\* the frame, which stays in the slot below the frame's base pointer for
\* as long as the frame is in use.
CalleeOf(stk, f) == StackAt(stk, f.basePointer - 1)

\* func (f *Frame) Instructions() code.Instructions
Instructions(f) ==
    IF f.fn = MainFn THEN instructions ELSE CalleeOf(stack, f).Fn.Instructions

\* A push that stores without looking at the stack's bound.
pushUnchecked(v, o) ==
    IF v.sp >= StackSize THEN [v EXCEPT !.panic = TRUE]
    ELSE [v EXCEPT !.stack = StackPut(v.stack, v.sp, o), !.sp = v.sp + 1,
                   !.lastPopped = [valid |-> FALSE, o |-> Nil]]

\* A push whose guard lets one push past the last slot through.
pushOffByOne(v, o) ==
    IF v.sp > StackSize THEN [v EXCEPT !.err = "stack overflow"]
    ELSE IF v.sp >= StackSize THEN [v EXCEPT !.panic = TRUE]
    ELSE [v EXCEPT !.stack = StackPut(v.stack, v.sp, o), !.sp = v.sp + 1,
                   !.lastPopped = [valid |-> FALSE, o |-> Nil]]

\* func (vm *VM) push(o object.Object) error
push(v, o) ==
    IF v.sp >= StackSize THEN [v EXCEPT !.err = "stack overflow"]
    ELSE [v EXCEPT !.stack = StackPut(v.stack, v.sp, o), !.sp = v.sp + 1,
                   !.lastPopped = [valid |-> FALSE, o |-> Nil]]

\* A pop that clears the slot it returns.
popClearing(v) ==
    IF v.sp - 1 < 0 THEN [v EXCEPT !.panic = TRUE]
    ELSE [v EXCEPT !.sp = v.sp - 1,
                   !.stack = StackPut(v.stack, v.sp - 1, Nil),
                   !.lastPopped = [valid |-> TRUE, o |-> StackAt(v.stack, v.sp - 1)]]

\* func (vm *VM) pop() object.Object: the VM after the pop; the object
\* returned is lastPopped.o.  stack[sp-1] with sp = 0 is out of range.
pop(v) ==
    IF v.sp - 1 < 0 THEN [v EXCEPT !.panic = TRUE]
    ELSE [v EXCEPT !.sp = v.sp - 1,
                   !.lastPopped = [valid |-> TRUE, o |-> StackAt(v.stack, v.sp - 1)]]

\* Go's integer division: the quotient truncated toward zero.
GoQuotient(a, b) ==
    IF (a >= 0) = (b >= 0)
      THEN (IF a >= 0 THEN a ELSE -a) \div (IF b >= 0 THEN b ELSE -b)
      ELSE -((IF a >= 0 THEN a ELSE -a) \div (IF b >= 0 THEN b ELSE -b))

\* func (vm *VM) executeBinaryIntegerOperation(op, left, right) error
executeBinaryIntegerOperation(v, op, left, right) ==
    LET leftValue == left.IntValue
        rightValue == right.IntValue
        fresh == Integer(0, v.heap + 1)
        alloc == [v EXCEPT !.heap = v.heap + 1]
    IN  CASE op = OpAdd ->
               push(alloc, [fresh EXCEPT !.IntValue = leftValue + rightValue])
          [] op = OpSub ->
               push(alloc, [fresh EXCEPT !.IntValue = leftValue - rightValue])
          [] op = OpMul ->
               push(alloc, [fresh EXCEPT !.IntValue = leftValue * rightValue])
          [] op = OpDiv ->
               IF rightValue = 0 THEN [v EXCEPT !.panic = TRUE]
               ELSE push(alloc, [fresh EXCEPT
                                   !.IntValue = GoQuotient(leftValue, rightValue)])
          [] OTHER ->
               [v EXCEPT !.err = "unknown integer operator: " \o ToString(op)]

\* func (vm *VM) executeBinaryOperation(op code.Opcode) error
executeBinaryOperation(v, op) ==
    LET v1 == pop(v)
        right == v1.lastPopped.o
        v2 == pop(v1)
        left == v2.lastPopped.o
    IN  IF v1.panic THEN v1
        ELSE IF v2.panic THEN v2
        ELSE IF left = Nil \/ right = Nil THEN [v2 EXCEPT !.panic = TRUE]
        ELSE IF left.Type = INTEGER_OBJ /\ right.Type = INTEGER_OBJ
          THEN executeBinaryIntegerOperation(v2, op, left, right)
        ELSE [v2 EXCEPT !.err = "unsupported types for binary operation: "
                                  \o left.Type \o " " \o right.Type]

\* func (vm *VM) executeIntegerComparison(op, left, right) error
executeIntegerComparison(v, op, left, right) ==
    LET leftValue == left.IntValue
        rightValue == right.IntValue
    IN  CASE op = OpEqual ->
               push(v, nativeBoolToBooleanObject(rightValue = leftValue))
          [] op = OpNotEqual ->
               push(v, nativeBoolToBooleanObject(rightValue # leftValue))
          [] op = OpGreaterThan ->
               push(v, nativeBoolToBooleanObject(leftValue > rightValue))
          [] OTHER ->
               [v EXCEPT !.err = "unknown operator: " \o ToString(op)]

\* func (vm *VM) executeComparison(op code.Opcode) error; right == left on
\* two objects compares their addresses.
executeComparison(v, op) ==
    LET v1 == pop(v)
        right == v1.lastPopped.o
        v2 == pop(v1)
        left == v2.lastPopped.o
    IN  IF v1.panic THEN v1
        ELSE IF v2.panic THEN v2
        ELSE IF left = Nil \/ right = Nil THEN [v2 EXCEPT !.panic = TRUE]
        ELSE IF left.Type = INTEGER_OBJ /\ right.Type = INTEGER_OBJ
          THEN executeIntegerComparison(v2, op, left, right)
        ELSE CASE op = OpEqual ->
                    push(v2, nativeBoolToBooleanObject(right.id = left.id))
               [] op = OpNotEqual ->
                    push(v2, nativeBoolToBooleanObject(right.id # left.id))
               [] OTHER ->
                    [v2 EXCEPT !.err = "unknown operator: " \o ToString(op)
                                 \o " (" \o left.Type \o " " \o right.Type \o ")"]

NoLastPopped == [valid |-> FALSE, o |-> Nil]

NoExecuted == [op |-> -1, left |-> Nil, right |-> Nil, sp |-> 0]

\* func New(bytecode *compiler.Bytecode) *VM, with the top-level frame
\* holding the main instructions at ip = -1.
New(b) ==
    [constants |-> b.Constants,
     instructions |-> b.Instructions,
     stack |-> <<>>,
     sp |-> 0,
     frames |-> <<NewFrame(MainFn, 0)>>,
     framesIndex |-> 1,
     globals |-> <<>>,
     heap |-> SingletonCount + Len(b.Constants),
     lastPopped |-> NoLastPopped,
     err |-> "",
     panic |-> FALSE]

\* The VM's fields as the record the handlers work on.
VMState ==
    [constants |-> constants, instructions |-> instructions, stack |-> stack,
     sp |-> sp, frames |-> frames,
     framesIndex |-> framesIndex, globals |-> globals, heap |-> heap,
     lastPopped |-> lastPopped, err |-> "", panic |-> FALSE]

\* The VM's fields after a handler: Run returns the handler's error, and a
\* panic ends the process.
Commit(r, ex) ==
    /\ constants' = r.constants
    /\ instructions' = r.instructions
    /\ stack' = r.stack
    /\ sp' = r.sp
    /\ frames' = r.frames
    /\ framesIndex' = r.framesIndex
    /\ globals' = r.globals
    /\ heap' = r.heap
    /\ lastPopped' = r.lastPopped
    /\ executed' = ex
    /\ runErr' = r.err
    /\ pc' = IF r.panic THEN "panicked"
             ELSE IF r.err # "" THEN "returned" ELSE "running"
    /\ UNCHANGED <<bytecode, codecVars, pipeVars, frontVars>>

\* The position Run fetches from and the opcode there: the loop runs while
\* ip < len(instructions), ip being one past the frame's ip.
FetchIp == frames[framesIndex].ip + 1

Fetching ==
    /\ pc = "running"
    /\ FetchIp < Len(Instructions(frames[framesIndex]))

CurrentOp == Instructions(frames[framesIndex])[FetchIp + 1]

\* The operand bytes after the opcode being fetched.
OperandBytes == SliceFrom(Instructions(frames[framesIndex]), FetchIp + 1)

\* The VM with the current frame's ip moved past n bytes.
Advance(v, n) == [v EXCEPT !.frames[v.framesIndex].ip = @ + n]

Executing(op) == [op |-> op, left |-> Nil, right |-> Nil, sp |-> sp]

\* The operands a binary instruction pops: right from the top, left below.
ExecutingBinary(op) ==
    [op |-> op, left |-> StackAt(stack, sp - 2), right |-> StackAt(stack, sp - 1),
     sp |-> sp]

\* vm := New(bytecode); vm.Run() starts.
VMNew ==
    /\ pc = "compiled"
    /\ Commit(New(bytecode), NoExecuted)

\* case code.OpConstant
ExecOpConstant ==
    /\ Fetching
    /\ CurrentOp = OpConstant
    /\ LET constIndex == ReadUint16(OperandBytes)
           v == Advance(VMState, 3)
       IN  Commit(IF constIndex >= Len(constants) THEN [v EXCEPT !.panic = TRUE]
                  ELSE push(v, constants[constIndex + 1]),
                  Executing(OpConstant))

\* case code.OpAdd, code.OpSub, code.OpMul, code.OpDiv
ExecBinaryOperation ==
    /\ Fetching
    /\ CurrentOp \in {OpAdd, OpSub, OpMul, OpDiv}
    /\ Commit(executeBinaryOperation(Advance(VMState, 1), CurrentOp),
              ExecutingBinary(CurrentOp))

\* case code.OpPop
ExecOpPop ==
    /\ Fetching
    /\ CurrentOp = OpPop
    /\ Commit(pop(Advance(VMState, 1)), Executing(OpPop))

\* case code.OpTrue
ExecOpTrue ==
    /\ Fetching
    /\ CurrentOp = OpTrue
    /\ Commit(push(Advance(VMState, 1), True), Executing(OpTrue))

\* case code.OpFalse
ExecOpFalse ==
    /\ Fetching
    /\ CurrentOp = OpFalse
    /\ Commit(push(Advance(VMState, 1), False), Executing(OpFalse))

\* case code.OpEqual, code.OpNotEqual, code.OpGreaterThan
ExecComparison ==
    /\ Fetching
    /\ CurrentOp \in {OpEqual, OpNotEqual, OpGreaterThan}
    /\ Commit(executeComparison(Advance(VMState, 1), CurrentOp),
              ExecutingBinary(CurrentOp))

\* The loop ends at the end of the current frame's instructions: return nil.
RunReturn ==
    /\ pc = "running"
    /\ ~(FetchIp < Len(Instructions(frames[framesIndex])))
    /\ pc' = "returned"
    /\ runErr' = ""
    /\ UNCHANGED <<constants, instructions, stack, sp, frames, framesIndex,
                   globals, heap, lastPopped, executed, bytecode, codecVars,
                   pipeVars, frontVars>>

\* func (vm *VM) LastPoppedStackElem() object.Object
LastPoppedStackElem == StackAt(stack, sp)

-----------------------------------------------------------------------------
(* The VM on bytecode given to it directly: compiler.Bytecode is a struct  *)
(* of two exported fields, and New takes any.                              *)

NoBytecode == [Instructions |-> <<>>, Constants |-> <<>>]

\* The VM before New, and the other variables when they are not in use.
PipelineIdle ==
    /\ program = Program(<<>>)
    /\ evaluated = Nil
    /\ compiler = NewCompiler

VMIdle ==
    /\ PipelineIdle
    /\ constants = <<>>
    /\ instructions = <<>>
    /\ stack = <<>>
    /\ sp = 0
    /\ frames = <<>>
    /\ framesIndex = 0
    /\ globals = <<>>
    /\ heap = 0
    /\ lastPopped = NoLastPopped
    /\ executed = NoExecuted
    /\ runErr = ""
    /\ bytecode = NoBytecode
    /\ pc = "idle"

\* No lexer, no parser, no environment and no symbol table of a caller's yet.
FrontIdle ==
    /\ lexer = <<>>
    /\ parser = <<>>
    /\ env = <<>>
    /\ symbols = <<>>
    /\ repl = <<>>

CodecIdle ==
    /\ cOp = OpConstant
    /\ cOperands = <<>>
    /\ cIns = <<>>
    /\ cRead = [operands |-> <<>>, n |-> 0]
    /\ cPc = "idle"

\* The constants of the bytecode given directly: integers, two String
\* objects of the same characters, another String, and an Error.
PoolObjects ==
    <<Integer(0, 0), Integer(2, 0), Integer(-7, 0), String("a", 0),
      String("a", 0), String("b", 0), Error("e", 0)>>

\* Each constant is an object of its own, at its own address.
AtAddresses(objs) == [i \in 1..Len(objs) |-> [objs[i] EXCEPT !.id = SingletonCount + i]]

Pool == AtAddresses(PoolObjects)

\* The instructions a direct program is made of: the ones Run has a case for.
PoolInstructions ==
    {Make(OpConstant, <<i - 1>>) : i \in 1..Len(Pool)} \cup
    {Make(op, <<>>) : op \in {OpAdd, OpSub, OpMul, OpDiv, OpPop, OpTrue, OpFalse,
                              OpEqual, OpNotEqual, OpGreaterThan}}

RECURSIVE Concat(_)
\* The instructions of a sequence, one after the other.
Concat(inss) == IF inss = <<>> THEN <<>> ELSE Head(inss) \o Concat(Tail(inss))

\* Direct programs have at most MaxInstrs instructions.
MaxInstrs == 3

DirectPrograms ==
    UNION {{Concat(p) : p \in SeqsOfLen(PoolInstructions, n)} : n \in 0..MaxInstrs}

\* The VM's fields are those of the record r, and Run is to start.
Constructed(r) ==
    /\ constants = r.constants
    /\ instructions = r.instructions
    /\ stack = r.stack
    /\ sp = r.sp
    /\ frames = r.frames
    /\ framesIndex = r.framesIndex
    /\ globals = r.globals
    /\ heap = r.heap
    /\ lastPopped = r.lastPopped
    /\ executed = NoExecuted
    /\ runErr = ""
    /\ pc = "running"

InitVM ==
    /\ CodecIdle
    /\ FrontIdle
    /\ PipelineIdle
    /\ bytecode = NoBytecode
    /\ \E ins \in DirectPrograms :
          Constructed(New([Instructions |-> ins, Constants |-> Pool]))

NextVM ==
    \/ ExecOpConstant
    \/ ExecBinaryOperation
    \/ ExecOpPop
    \/ ExecOpTrue
    \/ ExecOpFalse
    \/ ExecComparison
    \/ RunReturn

SpecVM == InitVM /\ [][NextVM]_vars

\* Programs that fill the stack: DeepFill pushes of True, then a tail of at
\* most MaxTail instructions.
MaxTail == 1

DeepFill == {StackSize - 1, StackSize}

DeepTails ==
    UNION {{Concat(p) : p \in SeqsOfLen(PoolInstructions, n)} : n \in 0..MaxTail}

\* n times the one-byte instruction OpTrue.
Fill(n) == [i \in 1..n |-> Make(OpTrue, <<>>)[1]]

DeepPrograms == {Fill(n) \o tail : n \in DeepFill, tail \in DeepTails}

InitDeep ==
    /\ CodecIdle
    /\ FrontIdle
    /\ PipelineIdle
    /\ bytecode = NoBytecode
    /\ \E ins \in DeepPrograms :
          Constructed(New([Instructions |-> ins, Constants |-> Pool]))

SpecDeep == InitDeep /\ [][NextVM]_vars

-----------------------------------------------------------------------------
(* Properties of the VM.                                                   *)

\* The fetched instruction is one whose case calls push first.
PushAtFull ==
    /\ Fetching
    /\ CurrentOp \in {OpConstant, OpTrue, OpFalse}
    /\ sp = StackSize

\* C4: in every reachable state 0 <= sp <= StackSize, and a push attempted
\* when sp = StackSize writes nothing to the stack, leaves sp unchanged and
\* makes Run return the error "stack overflow".
C4_StackBounded ==
    /\ [](0 <= sp /\ sp <= StackSize)
    /\ [][PushAtFull => /\ stack' = stack
                        /\ sp' = sp
                        /\ pc' = "returned"
                        /\ runErr' = "stack overflow"]_vars

\* A push of True on the full stack has made Run return the error.
C4_Witness ==
    /\ pc = "returned"
    /\ runErr = "stack overflow"
    /\ executed.op = OpTrue
    /\ executed.sp = StackSize
    /\ sp = StackSize
    /\ stack = <<Run(True, StackSize)>>

\* C5: after a pop the popped value is still at stack[sp], so that
\* LastPoppedStackElem returns the value most recently popped, until a push
\* overwrites the slot.
C5_LastPoppedStays ==
    lastPopped.valid => (sp < StackSize /\ LastPoppedStackElem = lastPopped.o)

\* OpPop has popped the constant 2, and LastPoppedStackElem returns it.
C5_Witness ==
    /\ executed.op = OpPop
    /\ lastPopped.valid
    /\ lastPopped.o = Pool[2]
    /\ sp = 0
    /\ LastPoppedStackElem = Pool[2]

\* A binary instruction has executed with both operands on the stack.
ExecutedOn(ops) == executed.op \in ops /\ executed.sp >= 2

BothOf(type) == executed.left.Type = type /\ executed.right.Type = type

\* The result the instruction left on top of the stack.
Pushed == StackAt(stack, sp - 1)

\* The value of an integer operation.
IntegerResult(op, l, r) ==
    CASE op = OpAdd -> l + r
      [] op = OpSub -> l - r
      [] op = OpMul -> l * r
      [] op = OpDiv -> GoQuotient(l, r)

\* C7: OpAdd, OpSub, OpMul and OpDiv on two Integers push the Integer
\* result; OpAdd on two Strings pushes their concatenation; every other
\* combination of operand types makes Run return an "unsupported types for
\* binary operation" error and pushes nothing.  (Division by zero is C8's.)
C7_BinaryOperationTypes ==
    (/\ ExecutedOn({OpAdd, OpSub, OpMul, OpDiv})
     /\ ~(executed.op = OpDiv /\ BothOf(INTEGER_OBJ) /\ executed.right.IntValue = 0))
    => IF BothOf(INTEGER_OBJ)
         THEN /\ runErr = ""
              /\ sp = executed.sp - 1
              /\ Pushed.Type = INTEGER_OBJ
              /\ Pushed.IntValue = IntegerResult(executed.op, executed.left.IntValue,
                                                 executed.right.IntValue)
       ELSE IF executed.op = OpAdd /\ BothOf(STRING_OBJ)
         THEN /\ runErr = ""
              /\ sp = executed.sp - 1
              /\ Pushed.Type = STRING_OBJ
              /\ Pushed.StrValue = executed.left.StrValue \o executed.right.StrValue
       ELSE /\ pc = "returned"
            /\ runErr = "unsupported types for binary operation: "
                          \o executed.left.Type \o " " \o executed.right.Type
            /\ sp = executed.sp - 2

\* C8: OpDiv on two Integers with the right one 0 makes Run return a
\* runtime error; the host does not panic.
C8_DivisionByZeroReturnsError ==
    (/\ ExecutedOn({OpDiv})
     /\ BothOf(INTEGER_OBJ)
     /\ executed.right.IntValue = 0)
    => (pc = "returned" /\ runErr # "")

\* C9: OpEqual and OpNotEqual on two Strings compare the contents: two
\* distinct String objects of the same characters are equal.
C9_StringsCompareByValue ==
    (ExecutedOn({OpEqual, OpNotEqual}) /\ BothOf(STRING_OBJ))
    => /\ runErr = ""
       /\ sp = executed.sp - 1
       /\ Pushed = nativeBoolToBooleanObject(
                     (executed.left.StrValue = executed.right.StrValue)
                       = (executed.op = OpEqual))

\* C10: an arithmetic or comparison instruction with an Error object as an
\* operand makes Run return a runtime error and pushes no result.
C10_ErrorOperandIsRuntimeError ==
    (/\ ExecutedOn({OpAdd, OpSub, OpMul, OpDiv, OpEqual, OpNotEqual, OpGreaterThan})
     /\ (executed.left.Type = ERROR_OBJ \/ executed.right.Type = ERROR_OBJ))
    => /\ pc = "returned"
       /\ runErr # ""
       /\ sp = executed.sp - 2

-----------------------------------------------------------------------------
(* Package evaluator.                                                      *)

\* func nativeBoolToBooleanObject(input bool) *object.Boolean of package
\* evaluator: its TRUE and FALSE render as the VM's do.
evalNativeBoolToBooleanObject(input) == IF input THEN True ELSE False

RECURSIVE Eval(_)
RECURSIVE evalStatements(_, _, _)

\* func evalStatements(stmts []ast.Statement) object.Object: the loop from
\* statement i on, result being the value so far.
evalStatements(stmts, i, result) ==
    IF i > Len(stmts) THEN result
    ELSE evalStatements(stmts, i + 1, Eval(stmts[i]))

\* func Eval(node ast.Node) object.Object
Eval(n) ==
    CASE n.node = "Program" -> evalStatements(n.Statements, 1, Nil)
      [] n.node = "ExpressionStatement" -> Eval(n.Expression)
      [] n.node = "IntegerLiteral" -> Integer(n.IntValue, 0)
      [] n.node = "Boolean" -> evalNativeBoolToBooleanObject(n.BoolValue)
      [] OTHER -> Nil

-----------------------------------------------------------------------------
(* The instructions Run has no case for under src/: their handlers follow  *)
(* the VM's description.                                                   *)

\* OpMinus: integer negation; another operand is a runtime error.
executeMinusOperator(v) ==
    LET v1 == pop(v)
        operand == v1.lastPopped.o
    IN  IF v1.panic THEN v1
        ELSE IF operand = Nil THEN [v1 EXCEPT !.panic = TRUE]
        ELSE IF operand.Type # INTEGER_OBJ
          THEN [v1 EXCEPT !.err = "unsupported type for negation: " \o operand.Type]
        ELSE push([v1 EXCEPT !.heap = v1.heap + 1],
                  Integer(-operand.IntValue, v1.heap + 1))

\* OpBang: true -> false, false and null -> true, anything else -> false.
executeBangOperator(v) ==
    LET v1 == pop(v)
        operand == v1.lastPopped.o
    IN  IF v1.panic THEN v1
        ELSE IF operand.id = True.id THEN push(v1, False)
        ELSE IF operand.id = False.id THEN push(v1, True)
        ELSE IF operand.id = Null.id THEN push(v1, True)
        ELSE push(v1, False)

ExecOpMinus ==
    /\ Fetching
    /\ CurrentOp = OpMinus
    /\ Commit(executeMinusOperator(Advance(VMState, 1)), Executing(OpMinus))

ExecOpBang ==
    /\ Fetching
    /\ CurrentOp = OpBang
    /\ Commit(executeBangOperator(Advance(VMState, 1)), Executing(OpBang))

\* vm.globals[i]: a slot never written is nil.
GlobalAt(g, i) == IF i \in DOMAIN g THEN g[i] ELSE Nil

\* OpSetGlobal pops into the globals slot of its operand.
ExecOpSetGlobal ==
    /\ Fetching
    /\ CurrentOp = OpSetGlobal
    /\ LET globalIndex == ReadUint16(OperandBytes)
           v1 == pop(Advance(VMState, 3))
       IN  Commit(IF v1.panic THEN v1
                  ELSE [v1 EXCEPT !.globals = (globalIndex :> v1.lastPopped.o) @@ @],
                  Executing(OpSetGlobal))

\* OpGetGlobal pushes the globals slot of its operand.
ExecOpGetGlobal ==
    /\ Fetching
    /\ CurrentOp = OpGetGlobal
    /\ LET globalIndex == ReadUint16(OperandBytes)
       IN  Commit(push(Advance(VMState, 3), GlobalAt(globals, globalIndex)),
                  Executing(OpGetGlobal))

-----------------------------------------------------------------------------
(* The two engines on one program, as the benchmark runs them: the         *)
(* evaluator on the AST, then the compiler and the VM on the same AST.     *)

\* Integer literals are 0..MaxInt.
MaxInt == 2

Leaves ==
    {IntegerLiteral(i) : i \in 0..MaxInt}
      \cup {Boolean(TRUE), Boolean(FALSE), Identifier("x")}

PrefixOperators == {"!", "-"}

InfixOperators == {"+", "-", "*", "/", "<", ">", "==", "!="}

\* The expressions: a leaf, or one operator on leaves.
Expressions ==
    Leaves
      \cup {PrefixExpression(op, r) : op \in PrefixOperators, r \in Leaves}
      \cup {InfixExpression(l, op, r) : l \in Leaves, op \in InfixOperators, r \in Leaves}

StatementsOver(exprs) ==
    {ExpressionStatement(e) : e \in exprs} \cup {LetStatement("x", e) : e \in exprs}

\* The programs: at most one statement, or a statement on a leaf and then
\* any statement.
Programs ==
    {Program(<<>>)}
      \cup {Program(<<s>>) : s \in StatementsOver(Expressions)}
      \cup {Program(<<f, s>>) : f \in StatementsOver(Leaves),
                                s \in StatementsOver(Expressions)}

Init ==
    /\ CodecIdle
    /\ FrontIdle
    /\ program \in Programs
    /\ evaluated = Nil
    /\ compiler = NewCompiler
    /\ bytecode = NoBytecode
    /\ pc = "parsed"
    /\ constants = <<>>
    /\ instructions = <<>>
    /\ stack = <<>>
    /\ sp = 0
    /\ frames = <<>>
    /\ framesIndex = 0
    /\ globals = <<>>
    /\ heap = 0
    /\ lastPopped = NoLastPopped
    /\ executed = NoExecuted
    /\ runErr = ""

\* result = evaluator.Eval(program)
CallEval ==
    /\ pc = "parsed"
    /\ evaluated' = Eval(program)
    /\ pc' = "evaluated"
    /\ UNCHANGED <<program, compiler, bytecode, vmVars, codecVars, frontVars>>

\* comp := compiler.New(); comp.Compile(program); comp.Bytecode()
CallCompile ==
    /\ pc = "evaluated"
    /\ compiler' = Compile(NewCompiler, program)
    /\ bytecode' = IF compiler'.err # "" THEN NoBytecode ELSE Bytecode(compiler')
    /\ pc' = IF compiler'.err # "" THEN "compile error" ELSE "compiled"
    /\ UNCHANGED <<program, evaluated, vmVars, codecVars, frontVars>>

Next ==
    \/ CallEval
    \/ CallCompile
    \/ VMNew
    \/ ExecOpConstant
    \/ ExecBinaryOperation
    \/ ExecOpPop
    \/ ExecOpTrue
    \/ ExecOpFalse
    \/ ExecComparison
    \/ ExecOpMinus
    \/ ExecOpBang
    \/ ExecOpSetGlobal
    \/ ExecOpGetGlobal
    \/ RunReturn

Spec == Init /\ [][Next]_vars

\* C1: for every program that parses, the value the VM leaves
\* (LastPoppedStackElem) after compiling and running it renders with
\* Inspect() as the value Eval returns for the same AST does.
C1_EnginesAgree ==
    (pc = "returned" /\ runErr = "")
    => Inspect(LastPoppedStackElem) = Inspect(evaluated)

-----------------------------------------------------------------------------
(* The encode/decode round trip: Make, then ReadOperands on what follows   *)
(* the opcode byte.                                                        *)

\* Operand values 0..MaxSmallOperand besides the edges of the 16-bit range.
MaxSmallOperand == 3

OperandValues ==
    (0..MaxSmallOperand) \cup {255, 256, 9999, 65534, 65535, 65536, 65537, -1}

NoRead == [operands |-> <<>>, n |-> 0]

InitCodec ==
    /\ VMIdle
    /\ FrontIdle
    /\ cOp \in DOMAIN definitions
    /\ cOperands \in SeqsOfLen(OperandValues, Len(definitions[cOp].OperandWidths))
    /\ cIns = <<>>
    /\ cRead = NoRead
    /\ cPc = "start"

CallMake ==
    /\ cPc = "start"
    /\ cIns' = Make(cOp, cOperands)
    /\ cPc' = "made"
    /\ UNCHANGED <<cOp, cOperands, cRead, bytecode, pc, vmVars, pipeVars, frontVars>>

CallReadOperands ==
    /\ cPc = "made"
    /\ cRead' = ReadOperands(definitions[cOp], SliceFrom(cIns, 1))
    /\ cPc' = "read"
    /\ UNCHANGED <<cOp, cOperands, cIns, bytecode, pc, vmVars, pipeVars, frontVars>>

NextCodec == CallMake \/ CallReadOperands

SpecCodec == InitCodec /\ [][NextCodec]_vars

\* An operand value that an operand of the given width in bytes can hold.
FitsWidth(width, o) == 0 <= o /\ o < 2 ^ (8 * width)

OperandsFit ==
    \A i \in 1..Len(cOperands) :
        FitsWidth(definitions[cOp].OperandWidths[i], cOperands[i])

\* What the round trip must give back: the operand vector, the number of
\* bytes after the opcode byte, and the opcode in the first byte.
RoundTrips ==
    /\ cRead.operands = cOperands
    /\ cRead.n = Len(cIns) - 1
    /\ cIns[1] = cOp

\* C2 (as stated): for every defined opcode and every operand vector with
\* one value per operand, ReadOperands on Make's bytes after the first
\* returns the vector and the byte count len - 1, and the first byte is op.
C2_RoundTripAnyOperands == cPc = "read" => RoundTrips

\* C2 (amended): the same, for operand vectors whose values fit the width
\* of their operand (0..65535 for a two-byte operand).
C2_RoundTripFittingOperands == (cPc = "read" /\ OperandsFit) => RoundTrips

\* A two-byte operand at the top of its range has made the round trip.
C2_Witness ==
    /\ cPc = "read"
    /\ cOp = OpConstant
    /\ cOperands = <<65535>>
    /\ cIns = <<OpConstant, 255, 255>>
    /\ cRead.operands = <<65535>>


-----------------------------------------------------------------------------
(* Calls: frames, closures and locals, and a function that calls itself    *)
(* without end.                                                            *)

\* The frames array holds 1024 frames.
MaxFrames == 1024

\* vm.stack[from .. from+n-1]
StackSlice(stk, from, n) == [i \in 1..n |-> StackAt(stk, from + i - 1)]

\* Push a frame; a frame beyond the frames array is a runtime error.
pushFrame(v, f) ==
    IF v.framesIndex >= MaxFrames THEN [v EXCEPT !.err = "stack overflow"]
    ELSE [v EXCEPT !.frames = Append(v.frames, f), !.framesIndex = @ + 1]

\* Call a closure with argc arguments on the stack above it.
callClosure(v, cl, argc) ==
    IF argc # cl.Fn.NumParameters
      THEN [v EXCEPT !.err = "wrong number of arguments: want="
                             \o ToString(cl.Fn.NumParameters)
                             \o ", got=" \o ToString(argc)]
    ELSE LET frame == NewFrame(cl.id, v.sp - argc)
             v1 == pushFrame(v, frame)
         IN  IF v1.err # "" THEN v1
             ELSE IF frame.basePointer + cl.Fn.NumLocals > StackSize
               THEN [v EXCEPT !.err = "stack overflow"]
             ELSE [v1 EXCEPT !.sp = frame.basePointer + cl.Fn.NumLocals]

\* OpCall argc: the callee is below its arguments, at stack[sp-1-argc].
executeCall(v, argc) ==
    IF v.sp - 1 - argc < 0 THEN [v EXCEPT !.panic = TRUE]
    ELSE LET callee == StackAt(v.stack, v.sp - 1 - argc)
         IN  IF callee.Type = CLOSURE_OBJ THEN callClosure(v, callee, argc)
             ELSE [v EXCEPT !.err = "calling non-function"]

\* OpCall with its one-byte operand.
ExecOpCall ==
    /\ Fetching
    /\ CurrentOp = OpCall
    /\ Commit(executeCall(Advance(VMState, 2), OperandBytes[1]), Executing(OpCall))

\* OpGetLocal idx pushes stack[basePointer + idx].
ExecOpGetLocal ==
    /\ Fetching
    /\ CurrentOp = OpGetLocal
    /\ LET localIndex == OperandBytes[1]
           v == Advance(VMState, 2)
       IN  Commit(push(v, StackAt(stack, frames[framesIndex].basePointer + localIndex)),
                  Executing(OpGetLocal))

\* OpClosure const-idx, n_free wraps constants[const-idx] with the n_free
\* values on top of the stack and pushes the closure.
pushClosure(v, constIndex, numFree) ==
    IF constIndex >= Len(v.constants) \/ v.sp - numFree < 0
      THEN [v EXCEPT !.panic = TRUE]
    ELSE LET function == v.constants[constIndex + 1]
             free == StackSlice(v.stack, v.sp - numFree, numFree)
         IN  IF function.Type # COMPILED_FUNCTION_OBJ
               THEN [v EXCEPT !.err = "not a function: " \o Inspect(function)]
             ELSE push([v EXCEPT !.sp = v.sp - numFree, !.heap = @ + 1],
                       Closure(function, free, v.heap + 1))

ExecOpClosure ==
    /\ Fetching
    /\ CurrentOp = OpClosure
    /\ Commit(pushClosure(Advance(VMState, 4), ReadUint16(OperandBytes),
                          OperandBytes[3]),
              Executing(OpClosure))

\* OpCurrentClosure pushes the closure the current frame runs.
ExecOpCurrentClosure ==
    /\ Fetching
    /\ CurrentOp = OpCurrentClosure
    /\ Commit(push(Advance(VMState, 1), CalleeOf(stack, frames[framesIndex])),
              Executing(OpCurrentClosure))

\* let f = fn() { f() }; f();  with f in the body resolved as the global.
RecGlobal ==
    [Constants |-> <<CompiledFunction(Make(OpGetGlobal, <<0>>) \o <<OpCall, 0>>
                                      \o Make(OpReturnValue, <<>>),
                                      0, 0, SingletonCount + 1)>>,
     Instructions |-> <<OpClosure, 0, 0, 0>> \o Make(OpSetGlobal, <<0>>)
                      \o Make(OpGetGlobal, <<0>>) \o <<OpCall, 0>>
                      \o Make(OpPop, <<>>)]

\* The same program with f in the body resolved as the function's own name.
RecCurrent ==
    [RecGlobal EXCEPT !.Constants =
        <<CompiledFunction(<<OpCurrentClosure>> \o <<OpCall, 0>>
                           \o Make(OpReturnValue, <<>>),
                           0, 0, SingletonCount + 1)>>]

\* let f = fn(a, b) { f(a, b) }; f(f, f);
RecArgs ==
    [Constants |-> <<CompiledFunction(<<OpCurrentClosure>> \o <<OpGetLocal, 0>>
                                      \o <<OpGetLocal, 1>> \o <<OpCall, 2>>
                                      \o Make(OpReturnValue, <<>>),
                                      2, 2, SingletonCount + 1)>>,
     Instructions |-> <<OpClosure, 0, 0, 0>> \o Make(OpSetGlobal, <<0>>)
                      \o Make(OpGetGlobal, <<0>>) \o Make(OpGetGlobal, <<0>>)
                      \o Make(OpGetGlobal, <<0>>) \o <<OpCall, 2>>
                      \o Make(OpPop, <<>>)]

RecPrograms == {RecGlobal, RecCurrent, RecArgs}

InitRec ==
    /\ CodecIdle
    /\ FrontIdle
    /\ PipelineIdle
    /\ bytecode = NoBytecode
    /\ \E b \in RecPrograms : Constructed(New(b))

NextRec ==
    \/ ExecOpClosure
    \/ ExecOpSetGlobal
    \/ ExecOpGetGlobal
    \/ ExecOpGetLocal
    \/ ExecOpCurrentClosure
    \/ ExecOpCall

\* Run is a loop on one thread: while an instruction can be fetched, the
\* next one is executed.
SpecRec == InitRec /\ [][NextRec]_vars /\ WF_vars(NextRec)

-----------------------------------------------------------------------------
(* Conditionals: the jumps the compiler emits for an if-expression, and    *)
(* the value the VM leaves for it.                                         *)

\* Null and false are falsy; every other object is truthy.
isTruthy(obj) ==
    CASE obj.Type = BOOLEAN_OBJ -> obj.BoolValue
      [] obj.Type = NULL_OBJ -> FALSE
      [] OTHER -> TRUE

\* The VM with the current frame's ip set so that pos is fetched next.
JumpTo(v, pos) == [v EXCEPT !.frames[v.framesIndex].ip = pos - 1]

\* OpJump pos
ExecOpJump ==
    /\ Fetching
    /\ CurrentOp = OpJump
    /\ Commit(JumpTo(VMState, ReadUint16(OperandBytes)), Executing(OpJump))

\* OpJumpNotTruthy pos: pop the condition, jump if it is falsy.
ExecOpJumpNotTruthy ==
    /\ Fetching
    /\ CurrentOp = OpJumpNotTruthy
    /\ LET pos == ReadUint16(OperandBytes)
           v1 == pop(Advance(VMState, 3))
       IN  Commit(IF v1.panic \/ isTruthy(v1.lastPopped.o) THEN v1
                  ELSE JumpTo(v1, pos),
                  [Executing(OpJumpNotTruthy) EXCEPT !.left = StackAt(stack, sp - 1)])

\* OpNull
ExecOpNull ==
    /\ Fetching
    /\ CurrentOp = OpNull
    /\ Commit(push(Advance(VMState, 1), Null), Executing(OpNull))

\* A block of one expression statement.
BlockOf(e) == BlockStatement(<<ExpressionStatement(e)>>)

\* The values of the branches.
BranchValues == {IntegerLiteral(i) : i \in 0..MaxInt} \cup {Boolean(TRUE), Boolean(FALSE)}

\* The conditions: literals, a comparison, a negation, and an if-expression
\* with no alternative (Null when its condition is false).
Conditions ==
    BranchValues
      \cup {InfixExpression(IntegerLiteral(l), op, IntegerLiteral(r)) :
              l \in 0..1, op \in {"<", "=="}, r \in 0..1}
      \cup {PrefixExpression("!", b) : b \in {Boolean(TRUE), IntegerLiteral(0)}}
      \cup {IfExpression(Boolean(b), BlockOf(IntegerLiteral(0)), <<>>) : b \in BOOLEAN}

Alternatives == {<<>>} \cup {<<BlockOf(e)>> : e \in BranchValues}

IfExpressions ==
    {IfExpression(c, BlockOf(e), a) : c \in Conditions, e \in BranchValues,
                                      a \in Alternatives}

\* if (...) {...} else {...};  alone, or bound by let and then read.
IfPrograms ==
    {Program(<<ExpressionStatement(e)>>) : e \in IfExpressions}
      \cup {Program(<<LetStatement("x", e), ExpressionStatement(Identifier("x"))>>) :
              e \in IfExpressions}

InitIf ==
    /\ CodecIdle
    /\ FrontIdle
    /\ program \in IfPrograms
    /\ evaluated = Nil
    /\ compiler = NewCompiler
    /\ bytecode = NoBytecode
    /\ pc = "parsed"
    /\ constants = <<>>
    /\ instructions = <<>>
    /\ stack = <<>>
    /\ sp = 0
    /\ frames = <<>>
    /\ framesIndex = 0
    /\ globals = <<>>
    /\ heap = 0
    /\ lastPopped = NoLastPopped
    /\ executed = NoExecuted
    /\ runErr = ""

NextIf ==
    \/ CallEval
    \/ CallCompile
    \/ VMNew
    \/ ExecOpConstant
    \/ ExecOpPop
    \/ ExecOpTrue
    \/ ExecOpFalse
    \/ ExecComparison
    \/ ExecOpBang
    \/ ExecOpSetGlobal
    \/ ExecOpGetGlobal
    \/ ExecOpJumpNotTruthy
    \/ ExecOpJump
    \/ ExecOpNull
    \/ RunReturn

SpecIf == InitIf /\ [][NextIf]_vars

\* Truthy, on the text Inspect() gives for a value.
TruthyText(t) == t \notin {"false", "null"}

RECURSIVE ValueText(_)
\* The value of an expression of IfPrograms as Inspect() renders it, by the
\* rules of the language.
ValueText(e) ==
    CASE e.node = "IntegerLiteral" -> ToString(e.IntValue)
      [] e.node = "Boolean" -> IF e.BoolValue THEN "true" ELSE "false"
      [] e.node = "PrefixExpression" ->
           IF TruthyText(ValueText(e.Right)) THEN "false" ELSE "true"
      [] e.node = "InfixExpression" ->
           IF (IF e.Operator = "<" THEN e.Left.IntValue < e.Right.IntValue
               ELSE e.Left.IntValue = e.Right.IntValue)
             THEN "true" ELSE "false"
      [] e.node = "IfExpression" ->
           IF TruthyText(ValueText(e.Condition))
             THEN ValueText(e.Consequence.Statements[1].Expression)
           ELSE IF e.Alternative = <<>> THEN "null"
           ELSE ValueText(e.Alternative[1].Statements[1].Expression)

\* The if-expression of the program: its only statement, or the value of
\* its let.
IfOf(p) ==
    IF p.Statements[1].node = "LetStatement" THEN p.Statements[1].Value
    ELSE p.Statements[1].Expression

\* C11: an if-expression evaluates to its consequence's value when the
\* condition is truthy, to its alternative's value when the condition is
\* falsy and there is an alternative, and to Null when it is falsy and there
\* is none; only Null and false are falsy.  No run of an if-program panics
\* or returns an error.
C11_IfValue ==
    /\ pc # "panicked"
    /\ pc = "returned" =>
         /\ runErr = ""
         /\ Inspect(LastPoppedStackElem) = ValueText(IfOf(program))

\* if (0) { 1 } else { 2 } has left 1: Integer 0 is truthy.
C11_Witness ==
    /\ pc = "returned"
    /\ program = Program(<<ExpressionStatement(
                     IfExpression(IntegerLiteral(0), BlockOf(IntegerLiteral(1)),
                                  <<BlockOf(IntegerLiteral(2))>>))>>)
    /\ LastPoppedStackElem = Integer(1, SingletonCount + 2)


-----------------------------------------------------------------------------
(* Calls and returns: the frame a call pushes and what a return leaves.    *)

\* Pop the current frame.
popFrame(v) ==
    [v EXCEPT !.frames = SubSeq(@, 1, Len(@) - 1), !.framesIndex = @ - 1]

\* Leave the current frame with a value: the frame is popped, sp is set to
\* the frame's base pointer less one, which discards the callee, its
\* arguments and its locals, and the value is pushed.  From the top-level
\* frame that is a store at index -1.
returnValue(v, value) ==
    LET frame == v.frames[v.framesIndex]
    IN  IF frame.basePointer - 1 < 0 THEN [v EXCEPT !.panic = TRUE]
        ELSE push([popFrame(v) EXCEPT !.sp = frame.basePointer - 1], value)

\* OpReturnValue
ExecOpReturnValue ==
    /\ Fetching
    /\ CurrentOp = OpReturnValue
    /\ LET v1 == pop(Advance(VMState, 1))
       IN  Commit(IF v1.panic THEN v1 ELSE returnValue(v1, v1.lastPopped.o),
                  Executing(OpReturnValue))

\* OpReturn
ExecOpReturn ==
    /\ Fetching
    /\ CurrentOp = OpReturn
    /\ Commit(returnValue(Advance(VMState, 1), Null), Executing(OpReturn))

\* OpSetLocal idx pops into stack[basePointer + idx].
ExecOpSetLocal ==
    /\ Fetching
    /\ CurrentOp = OpSetLocal
    /\ LET localIndex == OperandBytes[1]
           v1 == pop(Advance(VMState, 2))
           slot == frames[framesIndex].basePointer + localIndex
       IN  Commit(IF v1.panic THEN v1
                  ELSE IF slot >= StackSize THEN [v1 EXCEPT !.panic = TRUE]
                  ELSE [v1 EXCEPT !.stack = StackPut(v1.stack, slot, v1.lastPopped.o)],
                  Executing(OpSetLocal))

\* The functions called: each is [ins, numLocals, numParameters].
\* fn() { 7 }, fn() { }, fn(a) { a }, fn(a, b) { b }, fn(a, b) { a + b },
\* fn(a) { let c = 7; c }, and fn() { g() } with g the global 0.
CalledFunctions ==
    {[ins |-> Make(OpConstant, <<0>>) \o Make(OpReturnValue, <<>>), nl |-> 0, np |-> 0],
     [ins |-> Make(OpReturn, <<>>), nl |-> 0, np |-> 0],
     [ins |-> <<OpGetLocal, 0>> \o Make(OpReturnValue, <<>>), nl |-> 1, np |-> 1],
     [ins |-> <<OpGetLocal, 1>> \o Make(OpReturnValue, <<>>), nl |-> 2, np |-> 2],
     [ins |-> <<OpGetLocal, 0>> \o <<OpGetLocal, 1>> \o Make(OpAdd, <<>>)
              \o Make(OpReturnValue, <<>>), nl |-> 2, np |-> 2],
     [ins |-> Make(OpConstant, <<0>>) \o <<OpSetLocal, 1>> \o <<OpGetLocal, 1>>
              \o Make(OpReturnValue, <<>>), nl |-> 2, np |-> 1],
     [ins |-> Make(OpGetGlobal, <<0>>) \o <<OpCall, 0>> \o Make(OpReturnValue, <<>>),
      nl |-> 0, np |-> 0]}

\* The constants of a call program: the integers 7 and 2, then the function
\* called, then fn() { 7 } for the global 0.
CallConstants(f) ==
    <<Integer(7, SingletonCount + 1), Integer(2, SingletonCount + 2),
      CompiledFunction(f.ins, f.nl, f.np, SingletonCount + 3),
      CompiledFunction(Make(OpConstant, <<0>>) \o Make(OpReturnValue, <<>>), 0, 0,
                       SingletonCount + 4)>>

\* argc arguments, each the constant 1.
RECURSIVE Arguments(_)
Arguments(argc) ==
    IF argc = 0 THEN <<>> ELSE Make(OpConstant, <<1>>) \o Arguments(argc - 1)

\* The most arguments a call passes.
MaxArgs == 2

\* let g = fn() { 7 };  then  f(args);  or  2 + f(args);  with below
\* values under the callee.
CallInstructions(below, argc) ==
    <<OpClosure, 0, 3, 0>> \o Make(OpSetGlobal, <<0>>)
      \o (IF below = 1 THEN Make(OpConstant, <<1>>) ELSE <<>>)
      \o <<OpClosure, 0, 2, 0>> \o Arguments(argc) \o <<OpCall, argc>>
      \o (IF below = 1 THEN Make(OpAdd, <<>>) ELSE <<>>)
      \o Make(OpPop, <<>>)

CallPrograms ==
    {[Instructions |-> CallInstructions(below, argc), Constants |-> CallConstants(f)] :
        below \in 0..1, argc \in 0..MaxArgs, f \in CalledFunctions}

InitCall ==
    /\ CodecIdle
    /\ FrontIdle
    /\ PipelineIdle
    /\ bytecode = NoBytecode
    /\ \E b \in CallPrograms : Constructed(New(b))

NextCall ==
    \/ ExecOpConstant
    \/ ExecBinaryOperation
    \/ ExecOpPop
    \/ ExecOpSetGlobal
    \/ ExecOpGetGlobal
    \/ ExecOpClosure
    \/ ExecOpCall
    \/ ExecOpGetLocal
    \/ ExecOpSetLocal
    \/ ExecOpReturnValue
    \/ ExecOpReturn
    \/ RunReturn

SpecCall == InitCall /\ [][NextCall]_vars


\* Run is about to execute OpCall argc on a closure of argc parameters.
CallingClosure ==
    /\ Fetching
    /\ CurrentOp = OpCall
    /\ sp - 1 - OperandBytes[1] >= 0
    /\ StackAt(stack, sp - 1 - OperandBytes[1]).Type = CLOSURE_OBJ
    /\ StackAt(stack, sp - 1 - OperandBytes[1]).Fn.NumParameters = OperandBytes[1]

\* The call pushes one frame, whose base pointer is sp - argc: the slot
\* above the callee.
CallEffect ==
    CallingClosure =>
        /\ pc' = "running"
        /\ framesIndex' = framesIndex + 1
        /\ Len(frames') = framesIndex'
        /\ frames'[framesIndex'].basePointer = sp - OperandBytes[1]
        /\ frames'[framesIndex'].fn = StackAt(stack, sp - 1 - OperandBytes[1]).id
        /\ sp' = sp - OperandBytes[1]
                 + StackAt(stack, sp - 1 - OperandBytes[1]).Fn.NumLocals

\* Run is about to execute a return in the frame of a call.
Returning ==
    /\ Fetching
    /\ CurrentOp \in {OpReturnValue, OpReturn}
    /\ framesIndex > 1

\* The return pops the frame and leaves the value in the slot the callee
\* had, base pointer - 1, with sp one above it and the slots below as they
\* were.
ReturnEffect ==
    Returning =>
        LET bp == frames[framesIndex].basePointer
        IN  /\ pc' = "running"
            /\ framesIndex' = framesIndex - 1
            /\ Len(frames') = framesIndex'
            /\ \A i \in 1..(framesIndex' - 1) : frames'[i] = frames[i]
            /\ frames'[framesIndex'].basePointer = frames[framesIndex'].basePointer
            /\ sp' = (bp - 1) + 1
            /\ StackAt(stack', bp - 1) =
                 (IF CurrentOp = OpReturnValue THEN StackAt(stack, sp - 1) ELSE Null)
            /\ \A j \in 0..(bp - 2) : StackAt(stack', j) = StackAt(stack, j)

\* Every frame of a call has its callee in the slot below its base pointer.
FramesOnCallees ==
    \A i \in 2..framesIndex :
        /\ frames[i].basePointer >= 1
        /\ StackAt(stack, frames[i].basePointer - 1).Type = CLOSURE_OBJ
        /\ StackAt(stack, frames[i].basePointer - 1).id = frames[i].fn

-----------------------------------------------------------------------------
(* Function literals: what the compiler emits for them, and the closures   *)
(* OpClosure makes.                                                        *)

\* The parameter lists, one with a name twice.
ParameterLists == {<<>>, <<"a">>, <<"a", "b">>, <<"a", "a">>, <<"b", "a">>}

\* The bodies of a function of the given parameters: empty, a literal, a
\* return, a let and its value, each parameter, and a function literal that
\* reads the first parameter of the enclosing one.
Bodies(params) ==
    {BlockStatement(<<>>),
     BlockStatement(<<ExpressionStatement(IntegerLiteral(1))>>),
     BlockStatement(<<ReturnStatement(IntegerLiteral(1))>>),
     BlockStatement(<<LetStatement("c", IntegerLiteral(1)),
                      ExpressionStatement(Identifier("c"))>>),
     BlockStatement(<<LetStatement("c", IntegerLiteral(1)),
                      LetStatement("d", Identifier("c"))>>)}
      \cup {BlockStatement(<<ExpressionStatement(Identifier(params[i]))>>) :
              i \in 1..Len(params)}
      \cup {BlockStatement(<<ExpressionStatement(
                FunctionLiteral(<<"x">>,
                    BlockStatement(<<ExpressionStatement(
                        InfixExpression(Identifier(params[1]), "+", Identifier("x")))>>),
                    ""))>>) : i \in 1..(IF Len(params) > 0 THEN 1 ELSE 0)}

\* fn(...) {...};  and  let f = fn(...) {...};  in which the parser gives
\* the literal the name f.
FnPrograms ==
    UNION {{Program(<<ExpressionStatement(FunctionLiteral(ps, b, ""))>>) :
              b \in Bodies(ps)} : ps \in ParameterLists}
      \cup UNION {{Program(<<LetStatement("f", FunctionLiteral(ps, b, "f"))>>) :
                     b \in Bodies(ps)} : ps \in ParameterLists}

\* The most values a closure captures.
MaxFree == 2

\* Bytecode that pushes k values and then makes a closure of n of them:
\* 7, 2, true, 7, ... are pushed, in that order, as far as k goes.
ClosurePrograms ==
    {[Instructions |->
         Concat([i \in 1..k |->
                   CASE i % 3 = 1 -> Make(OpConstant, <<0>>)
                     [] i % 3 = 2 -> Make(OpConstant, <<1>>)
                     [] OTHER -> Make(OpTrue, <<>>)])
           \o <<OpClosure, 0, 2, n>> \o Make(OpPop, <<>>),
      Constants |-> <<Integer(7, SingletonCount + 1), Integer(2, SingletonCount + 2),
                      CompiledFunction(Make(OpReturn, <<>>), 0, 0, SingletonCount + 3)>>] :
        n \in 0..MaxFree, k \in 0..(MaxFree + 1)}

InitFn ==
    /\ CodecIdle
    /\ FrontIdle
    /\ bytecode = NoBytecode
    /\ \/ /\ program \in FnPrograms
          /\ evaluated = Nil
          /\ compiler = NewCompiler
          /\ pc = "parsed"
          /\ constants = <<>>
          /\ instructions = <<>>
          /\ stack = <<>>
          /\ sp = 0
          /\ frames = <<>>
          /\ framesIndex = 0
          /\ globals = <<>>
          /\ heap = 0
          /\ lastPopped = NoLastPopped
          /\ executed = NoExecuted
          /\ runErr = ""
       \/ /\ PipelineIdle
          /\ \E b \in ClosurePrograms : Constructed(New(b))

NextFn ==
    \/ CallEval
    \/ CallCompile
    \/ VMNew
    \/ ExecOpConstant
    \/ ExecOpTrue
    \/ ExecOpClosure
    \/ ExecOpPop
    \/ ExecOpSetGlobal
    \/ RunReturn

SpecFn == InitFn /\ [][NextFn]_vars


RECURSIVE ClosuresIn(_, _)
\* The operands <<const-idx, n>> of the OpClosure instructions of ins, from
\* the instruction at index i on.
ClosuresIn(ins, i) ==
    IF i > Len(ins) \/ ins[i] \notin DOMAIN allDefinitions THEN {}
    ELSE LET widths == allDefinitions[ins[i]].OperandWidths
             next == i + 1 + WidthSum(widths, Len(widths) + 1)
         IN  (IF ins[i] = OpClosure /\ i + 3 <= Len(ins)
                THEN {<<ReadUint16(SubSeq(ins, i + 1, i + 2)), ins[i + 3]>>}
              ELSE {})
             \cup ClosuresIn(ins, next)

\* The OpClosure operands in the bytecode the compiler produced: in the
\* main instructions and in every compiled function.
CompiledClosures ==
    ClosuresIn(bytecode.Instructions, 1)
      \cup UNION {ClosuresIn(bytecode.Constants[k].Fn.Instructions, 1) :
                    k \in 1..Len(bytecode.Constants)}

\* Every OpClosure const-idx, n the compiler emitted names a CompiledFunction
\* and has for n the number of free symbols recorded when that function's
\* scope was left; every function literal has its OpClosure.
ClosuresAsCompiled ==
    /\ CompiledClosures =
         {<<compiler.functions[k].fnIndex, Len(compiler.functions[k].freeSymbols)>> :
            k \in 1..Len(compiler.functions)}
    /\ \A cl \in CompiledClosures :
         /\ cl[1] < Len(bytecode.Constants)
         /\ bytecode.Constants[cl[1] + 1].Type = COMPILED_FUNCTION_OBJ

\* Run is about to execute an OpClosure const-idx, n that the stack and the
\* constants allow.
MakingClosure ==
    /\ Fetching
    /\ CurrentOp = OpClosure
    /\ ReadUint16(OperandBytes) < Len(constants)
    /\ sp - OperandBytes[3] >= 0

\* The closure pushed has the n values that were on top of the stack, in the
\* order they were pushed, and the function of constants[const-idx].
ClosureEffect ==
    MakingClosure =>
        LET constIndex == ReadUint16(OperandBytes)
            n == OperandBytes[3]
            cl == StackAt(stack', sp' - 1)
        IN  /\ pc' = "running"
            /\ sp' = sp - n + 1
            /\ cl.Type = CLOSURE_OBJ
            /\ Len(cl.Free) = n
            /\ \A j \in 1..n : cl.Free[j] = StackAt(stack, sp - n + j - 1)
            /\ cl.Fn = constants[constIndex + 1].Fn
            /\ constants[constIndex + 1].Type = COMPILED_FUNCTION_OBJ

CompiledFunctionIndexes ==
    {k \in 0..(Len(bytecode.Constants) - 1) :
        bytecode.Constants[k + 1].Type = COMPILED_FUNCTION_OBJ}

\* C14: every CompiledFunction the compiler emits has NumLocals >=
\* NumParameters, and parameter i, in declaration order, is the local with
\* index i.
C14_ParametersAreFirstLocals ==
    pc = "compiled" =>
        /\ CompiledFunctionIndexes =
             {compiler.functions[k].fnIndex : k \in 1..Len(compiler.functions)}
        /\ \A k \in 1..Len(compiler.functions) :
             LET f == compiler.functions[k]
                 fn == bytecode.Constants[f.fnIndex + 1].Fn
             IN  /\ fn.NumLocals >= fn.NumParameters
                 /\ fn.NumParameters = Len(f.parameters)
                 /\ fn.NumLocals = f.symbolTable.numDefinitions
                 /\ \A i \in 1..Len(f.parameters) :
                      /\ f.parameters[i].Scope = LocalScope
                      /\ f.parameters[i].Index = i - 1

\* let f = fn(a, b) { let c = 1; c };  is compiled: two parameters, three
\* locals.
C14_Witness ==
    /\ pc = "compiled"
    /\ program = Program(<<LetStatement("f",
                     FunctionLiteral(<<"a", "b">>,
                         BlockStatement(<<LetStatement("c", IntegerLiteral(1)),
                                          ExpressionStatement(Identifier("c"))>>),
                         "f"))>>)
    /\ Len(compiler.functions) = 1
    /\ bytecode.Constants[2].Fn.NumParameters = 2
    /\ bytecode.Constants[2].Fn.NumLocals = 3


-----------------------------------------------------------------------------
(* A hash literal compiled twice.  The range over Pairs gives the entries  *)
(* in an order that differs from one run to the next.                      *)

\* The most pairs of a hash literal.
MaxPairs == 2

\* The key nodes and the value nodes.
HashKeys ==
    {IntegerLiteral(1), IntegerLiteral(2), StringLiteral("1"), StringLiteral("a"),
     Boolean(TRUE)}

HashValues == {IntegerLiteral(i) : i \in 0..MaxInt}

\* The maps: the entry at address a, for each a of 1..n.
PairMaps ==
    UNION {{{Pair(a, k[a], v[a]) : a \in 1..n} :
              k \in [1..n -> HashKeys], v \in [1..n -> HashValues]} :
           n \in 0..MaxPairs}

\* The orders a range over the map can give.
IterationOrders(pairs) ==
    {order \in SeqsOfLen(pairs, Cardinality(pairs)) :
        {order[i] : i \in 1..Len(order)} = pairs}

\* The program {k: v, ...};  with its map iterated in the given order.
HashProgram(order) == Program(<<ExpressionStatement(HashLiteral(order))>>)

\* program holds the map as the set of its entries.
InitHash ==
    /\ CodecIdle
    /\ FrontIdle
    /\ program \in PairMaps
    /\ evaluated = Nil
    /\ compiler = NewCompiler
    /\ bytecode = NoBytecode
    /\ pc = "parsed"
    /\ constants = <<>>
    /\ instructions = <<>>
    /\ stack = <<>>
    /\ sp = 0
    /\ frames = <<>>
    /\ framesIndex = 0
    /\ globals = <<>>
    /\ heap = 0
    /\ lastPopped = NoLastPopped
    /\ executed = NoExecuted
    /\ runErr = ""

\* comp := compiler.New(); comp.Compile(program); comp.Bytecode()
CompileHashFirst ==
    /\ pc = "parsed"
    /\ \E order \in IterationOrders(program) :
          compiler' = Compile(NewCompiler, HashProgram(order))
    /\ bytecode' = Bytecode(compiler')
    /\ pc' = "compiled"
    /\ UNCHANGED <<program, evaluated, vmVars, codecVars, frontVars>>

\* The same again, with a new compiler; bytecode keeps the first result.
CompileHashAgain ==
    /\ pc = "compiled"
    /\ \E order \in IterationOrders(program) :
          compiler' = Compile(NewCompiler, HashProgram(order))
    /\ pc' = "compiled twice"
    /\ UNCHANGED <<program, evaluated, bytecode, vmVars, codecVars, frontVars>>

NextHash == CompileHashFirst \/ CompileHashAgain

SpecHash == InitHash /\ [][NextHash]_vars

\* C15: compiling the same hash literal twice yields identical instructions
\* and identical constants in the same order, whatever order the map is
\* iterated in, also when two distinct key nodes have the same String().
C15_HashCompileDeterministic ==
    pc = "compiled twice" => Bytecode(compiler) = bytecode


-----------------------------------------------------------------------------
(* Compile errors: programs with identifiers that are not defined and      *)
(* operators the compiler does not know.                                   *)

\* The most statements of a program.
MaxStatements == 2

ErrLeaves == {IntegerLiteral(1), Identifier("x"), Identifier("y")}

\* "~" and "^" are operators the compiler has no case for.
ErrPrefixOperators == {"-", "~"}

ErrInfixOperators == {"+", "<", "^"}

ErrExpressions ==
    ErrLeaves
      \cup {PrefixExpression(op, r) : op \in ErrPrefixOperators, r \in ErrLeaves}
      \cup {InfixExpression(l, op, r) :
              l \in ErrLeaves, op \in ErrInfixOperators, r \in ErrLeaves}

ErrStatements ==
    {ExpressionStatement(e) : e \in ErrExpressions}
      \cup {LetStatement("x", e) : e \in ErrLeaves}

ErrPrograms ==
    UNION {{Program(stmts) : stmts \in SeqsOfLen(ErrStatements, n)} :
           n \in 1..MaxStatements}

InitErr ==
    /\ CodecIdle
    /\ FrontIdle
    /\ program \in ErrPrograms
    /\ evaluated = Nil
    /\ compiler = NewCompiler
    /\ bytecode = NoBytecode
    /\ pc = "parsed"
    /\ constants = <<>>
    /\ instructions = <<>>
    /\ stack = <<>>
    /\ sp = 0
    /\ frames = <<>>
    /\ framesIndex = 0
    /\ globals = <<>>
    /\ heap = 0
    /\ lastPopped = NoLastPopped
    /\ executed = NoExecuted
    /\ runErr = ""

NextErr == CallEval \/ CallCompile

SpecErr == InitErr /\ [][NextErr]_vars

\* The operators the claim calls supported.
SupportedInfix == {"+", "-", "*", "/", ">", "<", "==", "!="}

SupportedPrefix == {"!", "-"}

RECURSIVE Offence(_, _)
\* The error of the first offending node of expression e, in the order the
\* nodes are compiled ("" if none): an identifier not among the defined
\* names, or an operator that is not supported.
Offence(e, defined) ==
    CASE e.node = "Identifier" ->
           IF e.Name \in defined THEN "" ELSE "undefined variable " \o e.Name
      [] e.node = "PrefixExpression" ->
           LET r == Offence(e.Right, defined)
           IN  IF r # "" THEN r
               ELSE IF e.Operator \in SupportedPrefix THEN ""
               ELSE "unknown operator " \o e.Operator
      [] e.node = "InfixExpression" ->
           LET first == IF e.Operator = "<" THEN e.Right ELSE e.Left
               second == IF e.Operator = "<" THEN e.Left ELSE e.Right
               f == Offence(first, defined)
               g == Offence(second, defined)
           IN  IF f # "" THEN f
               ELSE IF g # "" THEN g
               ELSE IF e.Operator \in SupportedInfix THEN ""
               ELSE "unknown operator " \o e.Operator
      [] OTHER -> ""

\* The names the let statements before statement k define.
LetNames(stmts, k) ==
    {stmts[j].Name : j \in {i \in 1..(k - 1) : stmts[i].node = "LetStatement"}}

\* The error of statement k.
StatementOffence(stmts, k) ==
    IF stmts[k].node = "LetStatement"
      THEN Offence(stmts[k].Value, LetNames(stmts, k) \cup {stmts[k].Name})
    ELSE Offence(stmts[k].Expression, LetNames(stmts, k))

\* The statements with an offending node.
Offenders(stmts) == {k \in 1..Len(stmts) : StatementOffence(stmts, k) # ""}

FirstOffender(stmts) ==
    CHOOSE k \in Offenders(stmts) : \A j \in Offenders(stmts) : k <= j

\* What a compiler has emitted.
Emitted(c) == [Instructions |-> currentInstructions(c), Constants |-> c.constants]

\* The compiler after the first k statements of the program.
CompiledUpTo(k) ==
    Compile(NewCompiler, Program(SubSeq(program.Statements, 1, k)))

\* The operand of an infix expression that is compiled first.
FirstOperand(e) == IF e.Operator = "<" THEN e.Right ELSE e.Left

\* Statement k is an infix expression whose first compiled operand offends:
\* then nothing of the other operand is emitted.
OperandCut(k) ==
    LET s == program.Statements[k]
    IN  (s.node = "ExpressionStatement" /\ s.Expression.node = "InfixExpression"
           /\ Offence(FirstOperand(s.Expression), LetNames(program.Statements, k)) # "")
          => Emitted(compiler) =
               Emitted(Compile(CompiledUpTo(k - 1), FirstOperand(s.Expression)))

\* C16: Compile returns the error of the first offending node, "undefined
\* variable NAME" for an identifier Resolve does not find and "unknown
\* operator" for an infix or prefix operator that is not supported, and
\* emits nothing for the nodes after it: what it has emitted is what the
\* program cut after the offending statement emits, and nothing of the
\* operand that follows an offending operand.  With no offending node there
\* is no error.
C16_FirstOffence ==
    /\ pc = "compile error" =>
         /\ Offenders(program.Statements) # {}
         /\ compiler.err = StatementOffence(program.Statements,
                                            FirstOffender(program.Statements))
         /\ Emitted(compiler) =
              Emitted(CompiledUpTo(FirstOffender(program.Statements)))
         /\ OperandCut(FirstOffender(program.Statements))
    /\ pc = "compiled" =>
         /\ compiler.err = ""
         /\ Offenders(program.Statements) = {}

\* y + 1; 1 has stopped at y, with nothing emitted.
C16_Witness ==
    /\ pc = "compile error"
    /\ program = Program(<<ExpressionStatement(
                             InfixExpression(Identifier("y"), "+", IntegerLiteral(1))),
                           ExpressionStatement(IntegerLiteral(1))>>)
    /\ compiler.err = "undefined variable y"
    /\ currentInstructions(compiler) = <<>>


-----------------------------------------------------------------------------
(* Package token.                                                          *)

ILLEGAL == "ILLEGAL"
EOF == "EOF"
IDENT == "IDENT"
INT == "INT"
ASSIGN == "="
PLUS == "+"
MINUS == "-"
BANG == "!"
ASTERISK == "*"
SLASH == "/"
LT == "<"
GT == ">"
EQ == "=="
NOT_EQ == "!="
COMMA == ","
SEMICOLON == ";"
LPAREN == "("
RPAREN == ")"
LBRACE == "{"
RBRACE == "}"
FUNCTION == "FUNCTION"
TokLET == "LET"
TokTRUE == "TRUE"
TokFALSE == "FALSE"
TokIF == "IF"
TokELSE == "ELSE"
RETURN == "RETURN"

\* type Token struct { Type TokenType; Literal string }
Token(type, literal) == [Type |-> type, Literal |-> literal]

\* var keywords
keywords ==
    ("fn" :> FUNCTION) @@ ("let" :> TokLET) @@ ("true" :> TokTRUE) @@
    ("false" :> TokFALSE) @@ ("if" :> TokIF) @@ ("else" :> TokELSE) @@
    ("return" :> RETURN)

\* func LookupIdent(ident string) TokenType
LookupIdent(ident) == IF ident \in DOMAIN keywords THEN keywords[ident] ELSE IDENT

-----------------------------------------------------------------------------
(* Package parser.  The parser's lexer l is taken here as the tokens it    *)
(* yields: input is the tokens before the end of input and pos the number  *)
(* of them read; after them NextToken yields EOF every time.  A nil        *)
(* expression is NilNode.  The parse functions return [p, exp]: the parser *)
(* after the call and the node returned.                                   *)

LOWEST == 1
EQUALS == 2
LESSGREATER == 3
SUM == 4
PRODUCT == 5
PREFIX == 6
CALL == 7

\* var precedences
precedences ==
    (EQ :> EQUALS) @@ (NOT_EQ :> EQUALS) @@ (LT :> LESSGREATER) @@
    (GT :> LESSGREATER) @@ (PLUS :> SUM) @@ (MINUS :> SUM) @@
    (SLASH :> PRODUCT) @@ (ASTERISK :> PRODUCT)

\* The nil ast.Expression.
NilNode == [node |-> "nil"]

\* The *ast.LetStatement that is nil: parseStatement returns it inside a
\* Statement, which is then not nil.
NilLetStatement == [node |-> "LetStatement", isNil |-> TRUE]

\* The token types registered with registerPrefix and registerInfix.
prefixParseFns == {IDENT, INT, BANG, MINUS, TokTRUE, TokFALSE, LPAREN}

infixParseFns == {PLUS, MINUS, SLASH, ASTERISK, EQ, NOT_EQ, LT, GT}

\* The element of a set of one element.  The({F(r) : r \in {e}}) is F(e)
\* with e evaluated once, however often F uses it.
The(S) == CHOOSE y \in S : TRUE

\* p.l.NextToken(), on the tokens of l: [l, tok]
LexerNextToken(l) ==
    IF l.pos < Len(l.input)
      THEN [l |-> [l EXCEPT !.pos = l.pos + 1], tok |-> l.input[l.pos + 1]]
    ELSE [l |-> l, tok |-> Token(EOF, "")]

\* func (p *Parser) nextToken()
nextToken(p) ==
    LET r == LexerNextToken(p.l)
    IN  [p EXCEPT !.curToken = p.peekToken, !.peekToken = r.tok, !.l = r.l]

\* func New(l *lexer.Lexer) *Parser
NewParser(input) ==
    nextToken(nextToken([l |-> [input |-> input, pos |-> 0],
                         errors |-> <<>>,
                         curToken |-> Token("", ""),
                         peekToken |-> Token("", "")]))

\* func (p *Parser) peekError(t token.TokenType)
peekError(p, t) ==
    [p EXCEPT !.errors = Append(p.errors,
        "expected next token to be " \o t \o ", got " \o p.peekToken.Type \o " instead")]

peekTokenIs(p, t) == p.peekToken.Type = t

curTokenIs(p, t) == p.curToken.Type = t

\* func (p *Parser) expectPeek(t token.TokenType) bool: [p, ok]
expectPeek(p, t) ==
    IF peekTokenIs(p, t) THEN [p |-> nextToken(p), ok |-> TRUE]
    ELSE [p |-> peekError(p, t), ok |-> FALSE]

\* func (p *Parser) noPrefixParseFnError(t token.TokenType)
noPrefixParseFnError(p, t) ==
    [p EXCEPT !.errors = Append(p.errors,
        "no prefix parse functions for " \o t \o " found")]

\* func (p *Parser) peekPrecedence() int
peekPrecedence(p) ==
    IF p.peekToken.Type \in DOMAIN precedences THEN precedences[p.peekToken.Type]
    ELSE LOWEST

\* func (p *Parser) curPrecedence() int
curPrecedence(p) ==
    IF p.curToken.Type \in DOMAIN precedences THEN precedences[p.curToken.Type]
    ELSE LOWEST

\* strconv.ParseInt(literal, 0, 64) on the literals of the INT tokens here.
\* Base 0 reads a leading 0 as octal: "010" is 8 and "08" is an error.
IntLiterals ==
    ("0" :> 0) @@ ("1" :> 1) @@ ("2" :> 2) @@ ("3" :> 3) @@ ("5" :> 5) @@
    ("10" :> 10) @@ ("010" :> 8)

ParseInt(literal) ==
    IF literal \in DOMAIN IntLiterals
      THEN [value |-> IntLiterals[literal], ok |-> TRUE]
    ELSE [value |-> 0, ok |-> FALSE]

\* func (p *Parser) parseIdentifier() ast.Expression
parseIdentifier(p) == [p |-> p, exp |-> Identifier(p.curToken.Literal)]

\* func (p *Parser) parseIntegerLiteral() ast.Expression
parseIntegerLiteral(p) ==
    LET r == ParseInt(p.curToken.Literal)
    IN  IF ~r.ok
          THEN [p |-> [p EXCEPT !.errors = Append(p.errors,
                         "couldn't parse \"" \o p.curToken.Literal \o "\" as integer")],
                exp |-> NilNode]
        ELSE [p |-> p, exp |-> IntegerLiteral(r.value)]

\* func (p *Parser) parseBoolean() ast.Expression
parseBoolean(p) == [p |-> p, exp |-> Boolean(curTokenIs(p, TokTRUE))]

RECURSIVE parseExpression(_, _)
RECURSIVE parseInfixLoop(_, _, _)

\* func (p *Parser) parsePrefixExpression() ast.Expression
parsePrefixExpression(p) ==
    The({[p |-> r.p, exp |-> PrefixExpression(p.curToken.Literal, r.exp)] :
           r \in {parseExpression(nextToken(p), PREFIX)}})

\* parseInfixExpression with the right operand parsed at LOWEST.
parseInfixExpressionLowest(p, left) ==
    The({[p |-> r.p, exp |-> InfixExpression(left, p.curToken.Literal, r.exp)] :
           r \in {parseExpression(nextToken(p), LOWEST)}})

\* func (p *Parser) parseInfixExpression(left ast.Expression) ast.Expression
parseInfixExpression(p, left) ==
    The({[p |-> r.p, exp |-> InfixExpression(left, p.curToken.Literal, r.exp)] :
           r \in {parseExpression(nextToken(p), curPrecedence(p))}})

\* func (p *Parser) parseGroupedExpression() ast.Expression
parseGroupedExpression(p) ==
    The({LET e == expectPeek(r.p, RPAREN)
          IN  IF ~e.ok THEN [p |-> e.p, exp |-> NilNode]
              ELSE [p |-> e.p, exp |-> r.exp] :
           r \in {parseExpression(nextToken(p), LOWEST)}})

\* The loop of parseExpression:
\* for !p.peekTokenIs(token.SEMICOLON) && precedence < p.peekPrecedence()
parseInfixLoop(p, precedence, leftExp) ==
    IF ~peekTokenIs(p, SEMICOLON) /\ precedence < peekPrecedence(p)
      THEN IF p.peekToken.Type \notin infixParseFns
             THEN [p |-> p, exp |-> leftExp]
           ELSE The({parseInfixLoop(r.p, precedence, r.exp) :
                       r \in {parseInfixExpression(nextToken(p), leftExp)}})
    ELSE [p |-> p, exp |-> leftExp]

\* func (p *Parser) parseExpression(precedence int) ast.Expression
parseExpression(p, precedence) ==
    IF p.curToken.Type \notin prefixParseFns
      THEN [p |-> noPrefixParseFnError(p, p.curToken.Type), exp |-> NilNode]
    ELSE LET t == p.curToken.Type
         IN  The({parseInfixLoop(leftExp.p, precedence, leftExp.exp) :
                    leftExp \in {CASE t = IDENT -> parseIdentifier(p)
                                   [] t = INT -> parseIntegerLiteral(p)
                                   [] t \in {BANG, MINUS} -> parsePrefixExpression(p)
                                   [] t \in {TokTRUE, TokFALSE} -> parseBoolean(p)
                                   [] t = LPAREN -> parseGroupedExpression(p)}})

\* func (p *Parser) parseExpressionStatement() *ast.ExpressionStatement:
\* [p, stmt]
parseExpressionStatement(p) ==
    The({[p |-> IF peekTokenIs(r.p, SEMICOLON) THEN nextToken(r.p) ELSE r.p,
          stmt |-> ExpressionStatement(r.exp)] :
           r \in {parseExpression(p, LOWEST)}})

\* func (p *Parser) parseLetStatement() *ast.LetStatement, up to the loop
\* that skips to the semicolon: [p, stmt, ok], ok FALSE where it has
\* returned nil.  The value is not parsed: Value stays nil.
parseLetStatement(p) ==
    LET a == expectPeek(p, IDENT)
        b == expectPeek(a.p, ASSIGN)
    IN  IF ~a.ok THEN [p |-> a.p, stmt |-> NilLetStatement, ok |-> FALSE]
        ELSE IF ~b.ok THEN [p |-> b.p, stmt |-> NilLetStatement, ok |-> FALSE]
        ELSE [p |-> b.p, stmt |-> LetStatement(a.p.curToken.Literal, NilNode),
              ok |-> TRUE]

\* func (p *Parser) parseReturnStatement() *ast.ReturnStatement, up to the
\* loop that skips to the semicolon.  ReturnValue stays nil.
parseReturnStatement(p) ==
    [p |-> nextToken(p), stmt |-> ReturnStatement(NilNode), ok |-> TRUE]

\* The parser as New leaves it, about to run ParseProgram; stmt is the
\* statement parseLetStatement or parseReturnStatement is building.
StartParser(input) ==
    The({[l |-> p.l, errors |-> p.errors, curToken |-> p.curToken,
          peekToken |-> p.peekToken, stmt |-> NilNode] :
           p \in {NewParser(input)}})

\* program.Statements = append(program.Statements, stmt); p.nextToken()
AppendStatement(p, stmt) ==
    /\ program' = Program(Append(program.Statements, stmt))
    /\ \E q \in {nextToken([p EXCEPT !.stmt = NilNode])} : parser' = q

\* One turn of the loop of ParseProgram on an expression statement, or on
\* a let statement that returns nil.
ParseStatement ==
    /\ pc = "parsing"
    /\ ~curTokenIs(parser, EOF)
    /\ \/ /\ parser.curToken.Type \notin {TokLET, RETURN}
          /\ \E r \in {parseExpressionStatement(parser)} :
                AppendStatement(r.p, r.stmt)
       \/ /\ curTokenIs(parser, TokLET)
          /\ \E r \in {parseLetStatement(parser)} :
                ~r.ok /\ AppendStatement(r.p, r.stmt)
    /\ UNCHANGED <<pc, evaluated, compiler, bytecode, vmVars, codecVars, lexer, env, symbols, repl>>

\* parseLetStatement or parseReturnStatement reaches its loop
\* for !p.curTokenIs(token.SEMICOLON) { p.nextToken() }
EnterSkip ==
    /\ pc = "parsing"
    /\ curTokenIs(parser, RETURN) \/ curTokenIs(parser, TokLET)
    /\ \E r \in {IF curTokenIs(parser, TokLET) THEN parseLetStatement(parser)
                  ELSE parseReturnStatement(parser)} :
          r.ok /\ parser' = [r.p EXCEPT !.stmt = r.stmt]
    /\ pc' = "skipping"
    /\ UNCHANGED <<program, evaluated, compiler, bytecode, vmVars, codecVars,
                   lexer, env, symbols, repl>>

\* One turn of the skipping loop.
SkipToken ==
    /\ pc = "skipping"
    /\ ~curTokenIs(parser, SEMICOLON)
    /\ parser' = nextToken(parser)
    /\ UNCHANGED <<pc, program, evaluated, compiler, bytecode, vmVars, codecVars,
                   lexer, env, symbols, repl>>

\* The skipping loop ends at a semicolon: the statement is returned and
\* ParseProgram appends it.
SkipDone ==
    /\ pc = "skipping"
    /\ curTokenIs(parser, SEMICOLON)
    /\ AppendStatement(parser, parser.stmt)
    /\ pc' = "parsing"
    /\ UNCHANGED <<evaluated, compiler, bytecode, vmVars, codecVars, lexer, env, symbols, repl>>

\* for !p.curTokenIs(token.EOF) ends: return program
ParseProgramReturn ==
    /\ pc = "parsing"
    /\ curTokenIs(parser, EOF)
    /\ pc' = "parsed"
    /\ UNCHANGED <<parser, program, evaluated, compiler, bytecode, vmVars,
                   codecVars, lexer, env, symbols, repl>>

\* p := parser.New(l), l yielding one of the token streams inputs.
ParserNew(inputs) ==
    /\ pc = "source"
    /\ \E input \in inputs : parser' = StartParser(input)
    /\ pc' = "parsing"
    /\ UNCHANGED <<program, evaluated, compiler, bytecode, vmVars, codecVars,
                   lexer, env, symbols, repl>>

\* Before the parser is made.
InitSource ==
    /\ CodecIdle
    /\ FrontIdle
    /\ PipelineIdle
    /\ bytecode = NoBytecode
    /\ pc = "source"
    /\ constants = <<>>
    /\ instructions = <<>>
    /\ stack = <<>>
    /\ sp = 0
    /\ frames = <<>>
    /\ framesIndex = 0
    /\ globals = <<>>
    /\ heap = 0
    /\ lastPopped = NoLastPopped
    /\ executed = NoExecuted
    /\ runErr = ""

-----------------------------------------------------------------------------
(* ParseProgram on every short token stream.                               *)

\* The most tokens of a stream, the EOF after them not counted.
MaxTokens == 3

StreamTokens ==
    {Token(TokLET, "let"), Token(RETURN, "return"), Token(IDENT, "x"),
     Token(ASSIGN, "="), Token(INT, "1"), Token(INT, "08"), Token(SEMICOLON, ";"),
     Token(PLUS, "+"), Token(LPAREN, "("), Token(RPAREN, ")")}

TokenStreams == UNION {SeqsOfLen(StreamTokens, n) : n \in 0..MaxTokens}

InitParse == InitSource

\* parser.New on one of the streams.
NewOnStream == ParserNew(TokenStreams)

\* The steps of ParseProgram.
ParseProgramStep ==
    \/ ParseStatement
    \/ EnterSkip
    \/ SkipToken
    \/ SkipDone
    \/ ParseProgramReturn

NextParse == NewOnStream \/ ParseProgramStep

\* ParseProgram is one call that runs: a step it can take is taken.
SpecParse == InitParse /\ [][NextParse]_vars /\ WF_vars(ParseProgramStep)

\* C17: ParseProgram terminates and returns a Program for every token
\* stream, also when a let or return statement is not followed by a
\* semicolon before the end of input.
C17_ParseProgramTerminates == (pc = "parsing") ~> (pc = "parsed")


-----------------------------------------------------------------------------
(* Expressions written out as tokens, parsed, compiled and run.            *)

\* The most infix operators of an expression.
MaxOperators == 2

ArithLeaves == {IntegerLiteral(2), IntegerLiteral(5), IntegerLiteral(10)}

ArithOperators == {PLUS, MINUS, ASTERISK, SLASH}

LadderOperators == ArithOperators \cup {LT, EQ}

RECURSIVE TreesOf(_)
\* The expressions of exactly n infix operators, in every grouping.
TreesOf(n) ==
    IF n = 0 THEN ArithLeaves
    ELSE UNION {{InfixExpression(l, op, r) :
                   l \in TreesOf(k), op \in LadderOperators, r \in TreesOf(n - 1 - k)} :
                k \in 0..(n - 1)}

Trees == UNION {TreesOf(n) : n \in 0..MaxOperators}

RECURSIVE Written(_, _, _, _)
\* The tokens of expression t written under an operator of precedence
\* around, as its right operand or not.  An infix expression is put in
\* parentheses where the ladder needs them: under an operator of higher
\* precedence, and as the right operand of one of equal precedence; with
\* all set, every infix expression is.
Written(t, around, right, all) ==
    IF t.node = "IntegerLiteral" THEN <<Token(INT, ToString(t.IntValue))>>
    ELSE LET q == precedences[t.Operator]
             inner == Written(t.Left, q, FALSE, all)
                        \o <<Token(t.Operator, t.Operator)>>
                        \o Written(t.Right, q, TRUE, all)
         IN  IF all \/ q < around \/ (q = around /\ right)
               THEN <<Token(LPAREN, "(")>> \o inner \o <<Token(RPAREN, ")")>>
             ELSE inner

\* The two ways expression t is written here.
Writings(t) == {Written(t, LOWEST, FALSE, FALSE), Written(t, LOWEST, FALSE, TRUE)}

ArithmeticStreams == UNION {Writings(t) : t \in Trees}

\* parser.New on one of the written expressions.
NewOnArithmetic == ParserNew(ArithmeticStreams)

NextArith ==
    \/ NewOnArithmetic
    \/ ParseStatement
    \/ ParseProgramReturn
    \/ CallEval
    \/ CallCompile
    \/ VMNew
    \/ ExecOpConstant
    \/ ExecBinaryOperation
    \/ ExecComparison
    \/ ExecOpPop
    \/ RunReturn

SpecArith == InitSource /\ [][NextArith]_vars

RECURSIVE IsTree(_)
\* e is made of integer literals and infix expressions only.
IsTree(e) ==
    \/ e.node = "IntegerLiteral"
    \/ e.node = "InfixExpression" /\ IsTree(e.Left) /\ IsTree(e.Right)

RECURSIVE IsArithmetic(_)
\* e is an integer arithmetic expression.
IsArithmetic(e) ==
    \/ e.node = "IntegerLiteral"
    \/ /\ e.node = "InfixExpression"
       /\ e.Operator \in ArithOperators
       /\ IsArithmetic(e.Left)
       /\ IsArithmetic(e.Right)

\* a / b of integer arithmetic: toward zero.
Quotient(a, b) ==
    LET abs(x) == IF x < 0 THEN -x ELSE x
        q == abs(a) \div abs(b)
    IN  IF (a < 0) = (b < 0) THEN q ELSE -q

RECURSIVE ArithValue(_)
\* The value of an integer arithmetic expression as it is grouped:
\* [ok, value], ok FALSE where it divides by zero.
ArithValue(e) ==
    IF e.node = "IntegerLiteral" THEN [ok |-> TRUE, value |-> e.IntValue]
    ELSE LET l == ArithValue(e.Left)
             r == ArithValue(e.Right)
         IN  IF ~l.ok \/ ~r.ok THEN [ok |-> FALSE, value |-> 0]
             ELSE CASE e.Operator = PLUS -> [ok |-> TRUE, value |-> l.value + r.value]
                    [] e.Operator = MINUS -> [ok |-> TRUE, value |-> l.value - r.value]
                    [] e.Operator = ASTERISK -> [ok |-> TRUE, value |-> l.value * r.value]
                    [] e.Operator = SLASH ->
                         IF r.value = 0 THEN [ok |-> FALSE, value |-> 0]
                         ELSE [ok |-> TRUE, value |-> Quotient(l.value, r.value)]
                    [] OTHER -> [ok |-> FALSE, value |-> 0]

\* The expression ParseProgram returned, once it has.
ParsedExpression == program.Statements[1].Expression

\* ParseProgram returned the one expression statement whose grouping is
\* the one the source was written from, with no error.
GroupedByLadder ==
    /\ parser.errors = <<>>
    /\ Len(program.Statements) = 1
    /\ program.Statements[1].node = "ExpressionStatement"
    /\ IsTree(ParsedExpression)
    /\ parser.l.input \in Writings(ParsedExpression)

\* C18: parseExpression groups by the precedence ladder: the operator of
\* higher precedence binds tighter, operators of equal precedence group left
\* to right, parentheses override both; and the value the VM computes for
\* an integer arithmetic expression is its value under that grouping.
C18_PrecedenceLadder ==
    /\ pc \notin {"source", "parsing"} => GroupedByLadder
    /\ (pc = "returned" /\ IsArithmetic(ParsedExpression)
          /\ ArithValue(ParsedExpression).ok) =>
         /\ runErr = ""
         /\ LastPoppedStackElem.Type = INTEGER_OBJ
         /\ LastPoppedStackElem.IntValue = ArithValue(ParsedExpression).value
    /\ pc = "panicked" => ~ArithValue(ParsedExpression).ok

\* 5 * (2 + 10) is 60.
C18_Witness ==
    /\ pc = "returned"
    /\ parser.l.input =
         <<Token(INT, "5"), Token(ASTERISK, "*"), Token(LPAREN, "("), Token(INT, "2"),
           Token(PLUS, "+"), Token(INT, "10"), Token(RPAREN, ")")>>
    /\ LastPoppedStackElem.IntValue = 60


-----------------------------------------------------------------------------
(* Package lexer.  The input is a Go string: a sequence of bytes 0..255.   *)
(* A token's literal is here the sequence of its bytes.  Go indexes from   *)
(* 0: input[i] is input[i + 1] here.                                       *)

\* The bytes NextToken has a case for, with the token type of each:
\* = ; ( ) , + { }
singleByteTokens ==
    (61 :> ASSIGN) @@ (59 :> SEMICOLON) @@ (40 :> LPAREN) @@ (41 :> RPAREN) @@
    (44 :> COMMA) @@ (43 :> PLUS) @@ (123 :> LBRACE) @@ (125 :> RBRACE)

\* func isLetter(ch byte) bool: a..z, A..Z, _
isLetter(ch) == (97 <= ch /\ ch <= 122) \/ (65 <= ch /\ ch <= 90) \/ ch = 95

\* func isDigit(ch byte) bool: 0..9
isDigit(ch) == 48 <= ch /\ ch <= 57

\* string(ch) for a byte ch: the UTF-8 encoding of the code point ch.
ByteToString(ch) ==
    IF ch < 128 THEN <<ch>> ELSE <<192 + (ch \div 64), 128 + (ch % 64)>>

\* func newToken(tokenType token.TokenType, ch byte) token.Token
newToken(tokenType, ch) == Token(tokenType, ByteToString(ch))

\* A readChar that starts again from the first byte once it has reached the
\* end of the input.
readCharRewind(l) ==
    [l EXCEPT !.ch = IF l.readPosition >= Len(l.input) THEN 0
                     ELSE l.input[l.readPosition + 1],
              !.position = l.readPosition,
              !.readPosition = IF l.readPosition >= Len(l.input) THEN 0
                               ELSE l.readPosition + 1]

\* func (l *Lexer) readChar()
readChar(l) ==
    [l EXCEPT !.ch = IF l.readPosition >= Len(l.input) THEN 0
                     ELSE l.input[l.readPosition + 1],
              !.position = l.readPosition,
              !.readPosition = l.readPosition + 1]

\* func New(input string) *Lexer
NewLexer(input) ==
    readChar([input |-> input, position |-> 0, readPosition |-> 0, ch |-> 0])

RECURSIVE skipWhitespace(_)
\* func (l *Lexer) skipWhitespace(): space, \t, \n, \r
skipWhitespace(l) ==
    IF l.ch \in {32, 9, 10, 13} THEN skipWhitespace(readChar(l)) ELSE l

RECURSIVE readWhile(_, _)
\* for isLetter(l.ch) { l.readChar() }, and the same for isDigit.
readWhile(l, letters) ==
    IF (IF letters THEN isLetter(l.ch) ELSE isDigit(l.ch))
      THEN readWhile(readChar(l), letters)
    ELSE l

\* l.input[from:to]: [ok, text], ok FALSE where Go panics on the bounds.
Slice(input, from, to) ==
    IF 0 <= from /\ from <= to /\ to <= Len(input)
      THEN [ok |-> TRUE, text |-> SubSeq(input, from + 1, to)]
    ELSE [ok |-> FALSE, text |-> <<>>]

\* func (l *Lexer) readIdentifier() string: [l, ok, text]
readIdentifier(l) ==
    LET l1 == readWhile(l, TRUE)
        s == Slice(l.input, l.position, l1.position)
    IN  [l |-> l1, ok |-> s.ok, text |-> s.text]

\* func (l *Lexer) readNumber() string: [l, ok, text]
readNumber(l) ==
    LET l1 == readWhile(l, FALSE)
        s == Slice(l.input, l.position, l1.position)
    IN  [l |-> l1, ok |-> s.ok, text |-> s.text]

\* The keywords as bytes: fn let true false if else return.
keywordBytes ==
    (<<102, 110>> :> "fn") @@ (<<108, 101, 116>> :> "let") @@
    (<<116, 114, 117, 101>> :> "true") @@ (<<102, 97, 108, 115, 101>> :> "false") @@
    (<<105, 102>> :> "if") @@ (<<101, 108, 115, 101>> :> "else") @@
    (<<114, 101, 116, 117, 114, 110>> :> "return")

\* token.LookupIdent on the bytes of an identifier.
LookupIdentBytes(text) ==
    IF text \in DOMAIN keywordBytes THEN LookupIdent(keywordBytes[text]) ELSE IDENT

\* func (l *Lexer) NextToken() token.Token: [l, tok, seen, failed], seen the
\* byte the switch looked at and failed TRUE where Go panics.
NextToken(l0) ==
    LET l == skipWhitespace(l0)
        id == readIdentifier(l)
        num == readNumber(l)
    IN  IF l.ch \in DOMAIN singleByteTokens
          THEN [l |-> readChar(l), tok |-> newToken(singleByteTokens[l.ch], l.ch),
                seen |-> l.ch, failed |-> FALSE]
        ELSE IF l.ch = 0
          THEN [l |-> readChar(l), tok |-> Token(EOF, <<>>), seen |-> l.ch,
                failed |-> FALSE]
        ELSE IF isLetter(l.ch)
          THEN [l |-> id.l, tok |-> Token(LookupIdentBytes(id.text), id.text),
                seen |-> l.ch, failed |-> ~id.ok]
        ELSE IF isDigit(l.ch)
          THEN [l |-> num.l, tok |-> Token(INT, num.text), seen |-> l.ch,
                failed |-> ~num.ok]
        ELSE [l |-> readChar(l), tok |-> newToken(ILLEGAL, l.ch), seen |-> l.ch,
              failed |-> FALSE]

-----------------------------------------------------------------------------
(* A lexer on every short input, asked for tokens past the end.            *)

\* The longest input, in bytes.
MaxInput == 3

\* The calls of NextToken go on until readPosition is this far past the end.
MaxPast == 3

\* i f 1 space + @ NUL and the byte 0xC3.
InputBytes == {105, 102, 49, 32, 43, 64, 0, 195}

LexerInputs == UNION {SeqsOfLen(InputBytes, n) : n \in 0..MaxInput}

\* No token returned yet.
NoToken == Token("", <<>>)

\* Before the lexer is made.
InitLex == InitSource

\* l := lexer.New(input)
LexerNew ==
    /\ pc = "source"
    /\ \E input \in LexerInputs :
          lexer' = [l |-> NewLexer(input), tok |-> NoToken, seen |-> 0,
                    failed |-> FALSE]
    /\ pc' = "lexing"
    /\ UNCHANGED <<parser, env, symbols, repl, program, evaluated, compiler, bytecode, vmVars,
                   codecVars>>

\* tok := l.NextToken()
CallNextToken ==
    /\ pc = "lexing"
    /\ ~lexer.failed
    /\ lexer.l.readPosition <= Len(lexer.l.input) + MaxPast
    /\ lexer' = NextToken(lexer.l)
    /\ UNCHANGED <<pc, parser, env, symbols, repl, program, evaluated, compiler, bytecode, vmVars,
                   codecVars>>

NextLex == LexerNew \/ CallNextToken

SpecLex == InitLex /\ [][NextLex]_vars

\* A byte NextToken has no case for.
Unrecognised(ch) ==
    /\ ch \notin DOMAIN singleByteTokens
    /\ ch # 0
    /\ ~isLetter(ch)
    /\ ~isDigit(ch)

\* After an EOF the next token is EOF with the empty literal.
EOFStays ==
    (pc = "lexing" /\ lexer.tok.Type = EOF) => lexer'.tok = Token(EOF, <<>>)

\* An unrecognised byte, and nothing else, is an ILLEGAL token of that byte.
IllegalIsTheByte ==
    (pc = "lexing" /\ lexer.tok # NoToken) =>
      /\ (lexer.tok.Type = ILLEGAL) = Unrecognised(lexer.seen)
      /\ lexer.tok.Type = ILLEGAL => lexer.tok.Literal = <<lexer.seen>>

\* C19: once NextToken has returned EOF every later call returns EOF with
\* an empty literal; the lexer never fails; an unrecognised byte is reported
\* as one ILLEGAL token whose literal is that byte.
C19_EOFForever ==
    /\ [][EOFStays]_vars
    /\ [](pc = "lexing" => ~lexer.failed)
    /\ []IllegalIsTheByte


-----------------------------------------------------------------------------
(* Package object: Environment.  env.envs holds the Environments made so   *)
(* far, a *Environment being an index into it and nil being 0; env.last    *)
(* is history: the latest call and what it returned.                       *)

\* func NewEnvironment() *Environment: the Environment made (its store is
\* the function on the names set so far).
NewEnvironment == [store |-> <<>>, outer |-> 0]

\* func NewEnclosedEnvironment(outer *Environment) *Environment
NewEnclosedEnvironment(outer) == [NewEnvironment EXCEPT !.outer = outer]

RECURSIVE GetOuterFirst(_, _, _)
\* Get that looks in the enclosing environments before its own store.
GetOuterFirst(envs, e, name) ==
    LET up == IF envs[e].outer # 0 THEN GetOuterFirst(envs, envs[e].outer, name)
              ELSE [obj |-> Nil, ok |-> FALSE]
    IN  IF up.ok THEN up
        ELSE IF name \in DOMAIN envs[e].store
          THEN [obj |-> envs[e].store[name], ok |-> TRUE]
        ELSE [obj |-> Nil, ok |-> FALSE]

RECURSIVE Get(_, _, _)
\* func (e *Environment) Get(name string) (Object, bool): [obj, ok]
Get(envs, e, name) ==
    IF name \in DOMAIN envs[e].store
      THEN [obj |-> envs[e].store[name], ok |-> TRUE]
    ELSE IF envs[e].outer # 0 THEN Get(envs, envs[e].outer, name)
    ELSE [obj |-> Nil, ok |-> FALSE]

\* func (e *Environment) Set(name string, val Object) Object: the
\* Environments after e.store[name] = val.
Set(envs, e, name, val) ==
    [envs EXCEPT ![e].store =
        [n \in DOMAIN envs[e].store \cup {name} |->
           IF n = name THEN val ELSE envs[e].store[n]]]

\* The most Environments made.
MaxEnvs == 3

EnvNames == {"x", "y"}

EnvValues == {Integer(1, 0), Integer(2, 0)}

\* No call yet.
NoCall == [op |-> "", e |-> 0, name |-> "", obj |-> Nil, ok |-> FALSE]

\* env := object.NewEnvironment()
InitEnv ==
    /\ CodecIdle
    /\ lexer = <<>>
    /\ parser = <<>>
    /\ symbols = <<>>
    /\ repl = <<>>
    /\ env = [envs |-> <<NewEnvironment>>, last |-> NoCall]
    /\ PipelineIdle
    /\ bytecode = NoBytecode
    /\ pc = "evaluating"
    /\ constants = <<>>
    /\ instructions = <<>>
    /\ stack = <<>>
    /\ sp = 0
    /\ frames = <<>>
    /\ framesIndex = 0
    /\ globals = <<>>
    /\ heap = 0
    /\ lastPopped = NoLastPopped
    /\ executed = NoExecuted
    /\ runErr = ""

\* object.NewEnclosedEnvironment(outer), outer one of the Environments.
CallNewEnclosedEnvironment ==
    /\ pc = "evaluating"
    /\ Len(env.envs) < MaxEnvs
    /\ \E outer \in 1..Len(env.envs) :
          env' = [envs |-> Append(env.envs, NewEnclosedEnvironment(outer)),
                  last |-> [NoCall EXCEPT !.op = "NewEnclosedEnvironment",
                                          !.e = outer]]
    /\ UNCHANGED <<pc, lexer, parser, symbols, repl, program, evaluated, compiler, bytecode,
                   vmVars, codecVars>>

\* e.Set(name, val)
CallSet ==
    /\ pc = "evaluating"
    /\ \E e \in 1..Len(env.envs), name \in EnvNames, val \in EnvValues :
          env' = [envs |-> Set(env.envs, e, name, val),
                  last |-> [op |-> "Set", e |-> e, name |-> name, obj |-> val,
                            ok |-> TRUE]]
    /\ UNCHANGED <<pc, lexer, parser, symbols, repl, program, evaluated, compiler, bytecode,
                   vmVars, codecVars>>

\* obj, ok := e.Get(name)
CallGet ==
    /\ pc = "evaluating"
    /\ \E e \in 1..Len(env.envs), name \in EnvNames :
          env' = [envs |-> env.envs,
                  last |-> [op |-> "Get", e |-> e, name |-> name,
                            obj |-> Get(env.envs, e, name).obj,
                            ok |-> Get(env.envs, e, name).ok]]
    /\ UNCHANGED <<pc, lexer, parser, symbols, repl, program, evaluated, compiler, bytecode,
                   vmVars, codecVars>>

NextEnv == CallNewEnclosedEnvironment \/ CallSet \/ CallGet

SpecEnv == InitEnv /\ [][NextEnv]_vars

RECURSIVE EnvChain(_, _)
\* Environment e and the ones that enclose it, innermost first.
EnvChain(envs, e) ==
    IF e = 0 THEN <<>> ELSE <<e>> \o EnvChain(envs, envs[e].outer)

\* The places of the chain whose Environment has name.
Holders(envs, e, name) ==
    {i \in 1..Len(EnvChain(envs, e)) : name \in DOMAIN envs[EnvChain(envs, e)[i]].store}

\* The innermost Environment of the chain that has name.
Innermost(envs, e, name) ==
    EnvChain(envs, e)[CHOOSE i \in Holders(envs, e, name) :
                        \A j \in Holders(envs, e, name) : i <= j]

\* What the latest Get returned is the binding of the innermost holder,
\* and not found only if the chain has no holder.
GetFindsInnermost ==
    env.last.op = "Get" =>
      LET e == env.last.e
          name == env.last.name
      IN  /\ env.last.ok = (Holders(env.envs, e, name) # {})
          /\ env.last.ok =>
               env.last.obj = env.envs[Innermost(env.envs, e, name)].store[name]

\* A step that is a Set binds name to val in the store of e and changes
\* nothing else: not the other names of e, not its outer, no other
\* Environment.
SetChangesOnlyOwnStore ==
    env'.last.op = "Set" =>
      LET e == env'.last.e
          name == env'.last.name
      IN  /\ Len(env'.envs) = Len(env.envs)
          /\ \A i \in 1..Len(env.envs) : i # e => env'.envs[i] = env.envs[i]
          /\ env'.envs[e].outer = env.envs[e].outer
          /\ DOMAIN env'.envs[e].store = DOMAIN env.envs[e].store \cup {name}
          /\ env'.envs[e].store[name] = env'.last.obj
          /\ \A n \in DOMAIN env.envs[e].store :
                n # name => env'.envs[e].store[n] = env.envs[e].store[n]

\* C20: Get(name) returns the binding of the innermost environment of the
\* chain that has name, not found only if none has it; Set(name, v) changes
\* only the store of the environment it is called on, every enclosing
\* environment's bindings stay as they are.
C20_GetInnermostSetLocal ==
    /\ []GetFindsInnermost
    /\ [][SetChangesOnlyOwnStore]_vars

\* x is 1 in the outer environment and 2 in the one it encloses: Get on
\* the inner one has returned 2.
C20_Witness ==
    /\ Len(env.envs) >= 2
    /\ env.envs[2].outer = 1
    /\ "x" \in DOMAIN env.envs[1].store
    /\ "x" \in DOMAIN env.envs[2].store
    /\ env.envs[1].store["x"] = Integer(1, 0)
    /\ env.envs[2].store["x"] = Integer(2, 0)
    /\ env.last = [op |-> "Get", e |-> 2, name |-> "x", obj |-> Integer(2, 0),
                   ok |-> TRUE]

-----------------------------------------------------------------------------
(* If-expressions over blocks of every shape: empty, ending in an          *)
(* expression, ending in a let, holding another if-expression; at the top  *)
(* level, as the value of a let and as the body of a function.             *)

\* The blocks with no if-expression in them.
PlainBlocks ==
    {BlockStatement(<<>>),
     BlockStatement(<<ExpressionStatement(IntegerLiteral(1))>>),
     BlockStatement(<<LetStatement("x", IntegerLiteral(2))>>)}

LongerBlocks ==
    {BlockStatement(<<ExpressionStatement(IntegerLiteral(1)),
                      ExpressionStatement(IntegerLiteral(2))>>),
     BlockStatement(<<ExpressionStatement(IntegerLiteral(1)),
                      LetStatement("x", IntegerLiteral(2))>>)}

ElseOf(blocks) == {<<>>} \cup {<<b>> : b \in blocks}

InnerIfs ==
    {IfExpression(Boolean(b), blk, alt) :
       b \in BOOLEAN, blk \in PlainBlocks, alt \in ElseOf(PlainBlocks)}

BranchBlocks ==
    PlainBlocks \cup LongerBlocks
      \cup {BlockStatement(<<ExpressionStatement(e)>>) : e \in InnerIfs}

BranchConditions ==
    {Boolean(TRUE), Boolean(FALSE),
     IfExpression(Boolean(TRUE), BlockOf(IntegerLiteral(1)), <<>>)}

BranchIfs ==
    {IfExpression(c, blk, alt) :
       c \in BranchConditions, blk \in BranchBlocks, alt \in ElseOf(BranchBlocks)}

\* if ...;   let y = if ...; y;   fn() { if ... };
BranchPrograms ==
    {Program(<<ExpressionStatement(e)>>) : e \in BranchIfs}
      \cup {Program(<<LetStatement("y", e), ExpressionStatement(Identifier("y"))>>) :
              e \in BranchIfs}
      \cup {Program(<<ExpressionStatement(
                        FunctionLiteral(<<>>, BlockStatement(<<ExpressionStatement(e)>>),
                                        ""))>>) :
              e \in BranchIfs}

InitBranch ==
    /\ CodecIdle
    /\ FrontIdle
    /\ program \in BranchPrograms
    /\ evaluated = Nil
    /\ compiler = NewCompiler
    /\ bytecode = NoBytecode
    /\ pc = "parsed"
    /\ constants = <<>>
    /\ instructions = <<>>
    /\ stack = <<>>
    /\ sp = 0
    /\ frames = <<>>
    /\ framesIndex = 0
    /\ globals = <<>>
    /\ heap = 0
    /\ lastPopped = NoLastPopped
    /\ executed = NoExecuted
    /\ runErr = ""

NextBranch ==
    \/ CallEval
    \/ CallCompile
    \/ VMNew
    \/ ExecOpConstant
    \/ ExecOpPop
    \/ ExecOpTrue
    \/ ExecOpFalse
    \/ ExecOpSetGlobal
    \/ ExecOpGetGlobal
    \/ ExecOpJumpNotTruthy
    \/ ExecOpJump
    \/ ExecOpNull
    \/ ExecOpClosure
    \/ RunReturn

SpecBranch == InitBranch /\ [][NextBranch]_vars

RECURSIVE InstructionStarts(_, _)
\* The offsets at which the instructions of ins begin, from the one at
\* offset o on.
InstructionStarts(ins, o) ==
    IF o >= Len(ins) \/ ins[o + 1] \notin DOMAIN allDefinitions THEN {}
    ELSE LET widths == allDefinitions[ins[o + 1]].OperandWidths
         IN  {o} \cup InstructionStarts(ins, o + 1 + WidthSum(widths, Len(widths) + 1))

\* The operand of the jump at offset o.
JumpTarget(ins, o) == ReadUint16(SliceFrom(ins, o + 1))

\* Every jump of ins goes to the first byte of an instruction of ins and
\* none holds the placeholder; an OpJumpNotTruthy goes to the instruction
\* after an OpJump that comes after it, and that OpJump goes forward.
JumpsLand(ins) ==
    LET starts == InstructionStarts(ins, 0)
    IN  \A o \in starts :
          /\ ins[o + 1] \in {OpJump, OpJumpNotTruthy} =>
               /\ JumpTarget(ins, o) \in starts
               /\ JumpTarget(ins, o) # 9999
          /\ ins[o + 1] = OpJumpNotTruthy =>
               LET t == JumpTarget(ins, o)
               IN  /\ t - 3 >= o + 3
                   /\ t - 3 \in starts
                   /\ ins[t - 3 + 1] = OpJump
                   /\ JumpTarget(ins, t - 3) >= t
          /\ ins[o + 1] = OpJump => JumpTarget(ins, o) >= o + 3

\* The instruction streams of the bytecode: the main one and that of every
\* compiled function among the constants.
Streams(b) ==
    {b.Instructions}
      \cup {b.Constants[k].Fn.Instructions :
              k \in {j \in 1..Len(b.Constants) :
                       b.Constants[j].Type = COMPILED_FUNCTION_OBJ}}

\* The if-expression a program of BranchPrograms is made of, the stream
\* its code is in, and the number of bytes that follow its code there:
\* OpPop;  OpSetGlobal, OpGetGlobal, OpPop;  OpReturnValue.
BranchIf(p) ==
    LET s == p.Statements[1]
    IN  IF s.node = "LetStatement" THEN s.Value
        ELSE IF s.Expression.node = "FunctionLiteral"
          THEN s.Expression.Body.Statements[1].Expression
        ELSE s.Expression

BranchStream(p, b) ==
    LET s == p.Statements[1]
    IN  IF s.node = "ExpressionStatement" /\ s.Expression.node = "FunctionLiteral"
          THEN b.Constants[Len(b.Constants)].Fn.Instructions
        ELSE b.Instructions

BranchTail(p) ==
    LET s == p.Statements[1]
    IN  IF s.node = "LetStatement" THEN 7 ELSE 1

\* The jumps of the program's if-expression: the OpJumpNotTruthy comes
\* right after the condition's code and goes to the instruction after the
\* OpJump that ends the consequence; that OpJump goes to the instruction
\* after the alternative, or after the OpNull that stands for it.
BranchJumps(p, b) ==
    LET e == BranchIf(p)
        ins == BranchStream(p, b)
        o == Len(currentInstructions(Compile(NewCompiler, e.Condition)))
        t == JumpTarget(ins, o)
        u == JumpTarget(ins, t - 3)
    IN  /\ ins[o + 1] = OpJumpNotTruthy
        /\ ins[t - 3 + 1] = OpJump
        /\ u = Len(ins) - BranchTail(p)
        /\ e.Alternative = <<>> => (t = u - 1 /\ ins[t + 1] = OpNull)

\* C21: in every instruction stream the compiler emits without error the
\* operand of each OpJump and OpJumpNotTruthy is the offset of the first
\* byte of an instruction of the same stream; the OpJumpNotTruthy of an
\* if-expression targets the instruction right after the OpJump that ends
\* the consequence, the OpJump the instruction right after the alternative
\* (or after the OpNull), and no operand 9999 remains.
C21_JumpTargets ==
    pc \notin {"parsed", "evaluated"} =>
      /\ compiler.err = ""
      /\ \A ins \in Streams(bytecode) : JumpsLand(ins)
      /\ BranchJumps(program, bytecode)

\* if (true) { if (false) { 1 } } else { let x = 2 };  compiled: the inner
\* jumps at 5 and 11 go to 14 and 15, the outer ones at 1 and 15 to 18 and
\* 24, where the OpPop is.
C21_Witness ==
    /\ pc = "compiled"
    /\ program = Program(<<ExpressionStatement(
                     IfExpression(Boolean(TRUE),
                                  BlockStatement(<<ExpressionStatement(
                                      IfExpression(Boolean(FALSE),
                                                   BlockOf(IntegerLiteral(1)), <<>>))>>),
                                  <<BlockStatement(<<LetStatement("x", IntegerLiteral(2))>>)>>))>>)
    /\ JumpTarget(bytecode.Instructions, 1) = 18
    /\ JumpTarget(bytecode.Instructions, 5) = 14
    /\ JumpTarget(bytecode.Instructions, 11) = 15
    /\ JumpTarget(bytecode.Instructions, 15) = 24
    /\ bytecode.Instructions[24 + 1] = OpPop

-----------------------------------------------------------------------------
(* The symbol table on its own: tables made, names defined and resolved as *)
(* the compiler does on entering a function, on a let or a parameter and   *)
(* on an identifier.  symbols.table is the table held (the innermost),     *)
(* symbols.defined is history: the names Define was called with in each    *)
(* table, the outermost first; symbols.last is the latest call and what    *)
(* it returned.                                                            *)

MaxScopes == 3

MaxDefinitions == 3

SymbolNames == {"a", "b"}

NoSymbolCall == [op |-> "", name |-> "", symbol |-> NoSymbol, ok |-> FALSE]

InitSym ==
    /\ CodecIdle
    /\ VMIdle
    /\ lexer = <<>>
    /\ parser = <<>>
    /\ env = <<>>
    /\ repl = <<>>
    /\ symbols = [table |-> NewSymbolTable, defined |-> <<<<>>>>,
                  last |-> NoSymbolCall]

\* The variables other than symbols stay as they are.
SymbolsOnly ==
    UNCHANGED <<pc, bytecode, vmVars, codecVars, pipeVars, lexer, parser, env, repl>>

\* c.symbolTable = NewEnclosedSymbolTable(c.symbolTable), as enterScope does.
CallNewEnclosedSymbolTable ==
    /\ symbols # <<>>
    /\ Len(symbols.defined) < MaxScopes
    /\ symbols' = [table |-> NewEnclosedSymbolTable(symbols.table),
                   defined |-> Append(symbols.defined, <<>>),
                   last |-> [NoSymbolCall EXCEPT !.op = "NewEnclosedSymbolTable"]]
    /\ SymbolsOnly

\* c.symbolTable = c.symbolTable.Outer, as leaveScope does.
CallOuter ==
    /\ symbols # <<>>
    /\ symbols.table.Outer # <<>>
    /\ symbols' = [table |-> symbols.table.Outer[1],
                   defined |-> SubSeq(symbols.defined, 1, Len(symbols.defined) - 1),
                   last |-> [NoSymbolCall EXCEPT !.op = "Outer"]]
    /\ SymbolsOnly

\* symbol := c.symbolTable.Define(name)
CallDefine ==
    /\ symbols # <<>>
    /\ symbols.table.numDefinitions < MaxDefinitions
    /\ \E name \in SymbolNames :
         symbols' = [table |-> Define(symbols.table, name),
                     defined |-> [symbols.defined EXCEPT ![Len(symbols.defined)] =
                                    Append(@, name)],
                     last |-> [op |-> "Define", name |-> name,
                               symbol |-> DefinedSymbol(symbols.table, name),
                               ok |-> TRUE]]
    /\ SymbolsOnly

\* symbol, ok := c.symbolTable.Resolve(name)
CallResolve ==
    /\ symbols # <<>>
    /\ \E name \in SymbolNames :
         \E r \in {Resolve(symbols.table, name)} :
           symbols' = [symbols EXCEPT !.last = [op |-> "Resolve", name |-> name,
                                                symbol |-> r.symbol, ok |-> r.ok]]
    /\ SymbolsOnly

NextSym == CallNewEnclosedSymbolTable \/ CallOuter \/ CallDefine \/ CallResolve

SpecSym == InitSym /\ [][NextSym]_vars

\* The tables, from the outermost, in which name was defined: their
\* numbers, 1 for the outermost.
DefinedIn(name) ==
    {d \in 1..Len(symbols.defined) :
       \E k \in 1..Len(symbols.defined[d]) : symbols.defined[d][k] = name}

\* The innermost of them.
Definer(name) == CHOOSE d \in DefinedIn(name) : \A e \in DefinedIn(name) : e <= d

\* The symbol the most recent Define of name in table d returned: its index
\* is the number of Define calls on the table before that one.
LatestDefined(name, d) ==
    LET k == CHOOSE i \in 1..Len(symbols.defined[d]) :
               /\ symbols.defined[d][i] = name
               /\ \A j \in (i + 1)..Len(symbols.defined[d]) : symbols.defined[d][j] # name
    IN  [Name |-> name, Scope |-> IF d = 1 THEN GlobalScope ELSE LocalScope,
         Index |-> k - 1]

\* C23: Define(name) returns a symbol whose index is the count of
\* definitions in that table so far, with scope Global when the table has no
\* Outer and Local otherwise; after any sequence of Define calls
\* Resolve(name) returns the symbol of the most recent Define of name, and a
\* definition in an inner table shadows one of the same name in an outer one.
C23_DefineThenResolve ==
    LET here == Len(symbols.defined)
    IN  /\ symbols.last.op = "Define" =>
             symbols.last.symbol =
               [Name |-> symbols.last.name,
                Scope |-> IF symbols.table.Outer = <<>> THEN GlobalScope ELSE LocalScope,
                Index |-> Len(symbols.defined[here]) - 1]
        /\ symbols.last.op = "Resolve" =>
             IF DefinedIn(symbols.last.name) = {} THEN ~symbols.last.ok
             ELSE /\ symbols.last.ok
                  /\ symbols.last.symbol =
                       LatestDefined(symbols.last.name, Definer(symbols.last.name))

\* a defined twice in the outermost table and once, after b, in a table
\* enclosed in it: Resolve("a") there has returned the inner a, Local 1.
C23_Witness ==
    /\ symbols.defined = <<<<"a", "a">>, <<"b", "a">>>>
    /\ symbols.last = [op |-> "Resolve", name |-> "a",
                       symbol |-> [Name |-> "a", Scope |-> LocalScope, Index |-> 1],
                       ok |-> TRUE]
    /\ Resolve(symbols.table.Outer[1], "a").symbol =
         [Name |-> "a", Scope |-> GlobalScope, Index |-> 1]

\* The scope of a symbol captured from an enclosing function.
FreeScope == "FREE"

\* C22: Resolve(name) in a function's table returns a Free symbol when name
\* is defined in an enclosing function's table, its index being its
\* position in the table's FreeSymbols, where the original symbol is
\* recorded; it returns the Global symbol unchanged when name is defined in
\* the outermost table.
C22_ResolveCaptures ==
    LET name == symbols.last.name
        here == Len(symbols.defined)
    IN  (symbols.last.op = "Resolve" /\ here > 1 /\ DefinedIn(name) # {}) =>
          /\ symbols.last.ok
          /\ Definer(name) = 1 => symbols.last.symbol = LatestDefined(name, 1)
          /\ Definer(name) \in 2..(here - 1) =>
               /\ symbols.last.symbol.Name = name
               /\ symbols.last.symbol.Scope = FreeScope
               /\ symbols.last.symbol.Index < Len(FreeSymbols(symbols.table))
               /\ FreeSymbols(symbols.table)[symbols.last.symbol.Index + 1].Name = name

-----------------------------------------------------------------------------
(* Infix expressions: the order in which the operands are compiled.        *)

\* The operands: integers and booleans.
OrderOperands ==
    {IntegerLiteral(i) : i \in 0..MaxInt} \cup {Boolean(TRUE), Boolean(FALSE)}

OrderPrograms ==
    {Program(<<ExpressionStatement(InfixExpression(l, op, r))>>) :
       l \in OrderOperands, op \in InfixOperators, r \in OrderOperands}

InitOrder ==
    /\ CodecIdle
    /\ FrontIdle
    /\ program \in OrderPrograms
    /\ evaluated = Nil
    /\ compiler = NewCompiler
    /\ bytecode = NoBytecode
    /\ pc = "parsed"
    /\ constants = <<>>
    /\ instructions = <<>>
    /\ stack = <<>>
    /\ sp = 0
    /\ frames = <<>>
    /\ framesIndex = 0
    /\ globals = <<>>
    /\ heap = 0
    /\ lastPopped = NoLastPopped
    /\ executed = NoExecuted
    /\ runErr = ""

NextOrder ==
    \/ CallEval
    \/ CallCompile
    \/ VMNew
    \/ ExecOpConstant
    \/ ExecOpTrue
    \/ ExecOpFalse
    \/ ExecBinaryOperation
    \/ ExecComparison
    \/ ExecOpPop
    \/ RunReturn

SpecOrder == InitOrder /\ [][NextOrder]_vars

\* Whether the operand is an integer.
IsIntegerOperand(e) == e.node = "IntegerLiteral"

\* The number of constants the operand adds to the pool.
OperandConstants(e) == IF IsIntegerOperand(e) THEN 1 ELSE 0

\* The code of the operand when the pool holds k constants before it.
OperandCode(e, k) ==
    CASE e.node = "IntegerLiteral" -> <<OpConstant, k \div 256, k % 256>>
      [] e.node = "Boolean" -> IF e.BoolValue THEN <<OpTrue>> ELSE <<OpFalse>>

\* The code of first, then of second, then the opcode and the OpPop of the
\* statement.
InOrder(first, second, op) ==
    OperandCode(first, 0) \o OperandCode(second, OperandConstants(first))
      \o <<op, OpPop>>

OrderExpression == program.Statements[1].Expression

\* C24: for an infix "<" the compiler emits the right operand's code, then
\* the left operand's, then OpGreaterThan, and for all Integers a and b the
\* VM's result of a < b is True exactly when a is less than b; for every
\* other infix operator the left operand's code comes before the right's.
C24_LessThanSwapsOperands ==
    LET e == OrderExpression
    IN  /\ pc \notin {"parsed", "evaluated"} =>
             /\ compiler.err = ""
             /\ bytecode.Instructions =
                  IF e.Operator = "<" THEN InOrder(e.Right, e.Left, OpGreaterThan)
                  ELSE InOrder(e.Left, e.Right, InfixOpcode[e.Operator])
        /\ (/\ pc = "returned"
            /\ e.Operator = "<"
            /\ IsIntegerOperand(e.Left)
            /\ IsIntegerOperand(e.Right)) =>
             /\ runErr = ""
             /\ LastPoppedStackElem =
                  IF e.Left.IntValue < e.Right.IntValue THEN True ELSE False

\* 1 < 2 has run: the 2 is constant 0, the 1 constant 1, and True is left.
C24_Witness ==
    /\ pc = "returned"
    /\ program = Program(<<ExpressionStatement(
                     InfixExpression(IntegerLiteral(1), "<", IntegerLiteral(2)))>>)
    /\ constants[1].IntValue = 2
    /\ constants[2].IntValue = 1
    /\ instructions = <<OpConstant, 0, 0, OpConstant, 0, 1, OpGreaterThan, OpPop>>
    /\ LastPoppedStackElem = True

-----------------------------------------------------------------------------
(* Function bodies of every ending: empty, an expression, a let, a return, *)
(* an if-expression, another function literal.                             *)

BodyStatements ==
    {ExpressionStatement(IntegerLiteral(1)),
     ExpressionStatement(Boolean(TRUE)),
     LetStatement("c", IntegerLiteral(1)),
     ReturnStatement(IntegerLiteral(1)),
     ExpressionStatement(IfExpression(Boolean(TRUE), BlockOf(IntegerLiteral(1)), <<>>)),
     ExpressionStatement(
         IfExpression(Boolean(TRUE), BlockStatement(<<>>),
                      <<BlockStatement(<<ReturnStatement(IntegerLiteral(2))>>)>>)),
     ExpressionStatement(
         IfExpression(Boolean(FALSE),
                      BlockStatement(<<LetStatement("c", IntegerLiteral(1))>>), <<>>)),
     ExpressionStatement(FunctionLiteral(<<>>, BlockStatement(<<>>), ""))}

BodyBlocks ==
    {BlockStatement(<<>>)}
      \cup {BlockStatement(<<s>>) : s \in BodyStatements}
      \cup {BlockStatement(<<s, t>>) : s \in BodyStatements, t \in BodyStatements}

\* fn() {...};  fn(a) {...};
BodyPrograms ==
    {Program(<<ExpressionStatement(FunctionLiteral(ps, b, ""))>>) :
       ps \in {<<>>, <<"a">>}, b \in BodyBlocks}

InitBody ==
    /\ CodecIdle
    /\ FrontIdle
    /\ program \in BodyPrograms
    /\ evaluated = Nil
    /\ compiler = NewCompiler
    /\ bytecode = NoBytecode
    /\ pc = "parsed"
    /\ constants = <<>>
    /\ instructions = <<>>
    /\ stack = <<>>
    /\ sp = 0
    /\ frames = <<>>
    /\ framesIndex = 0
    /\ globals = <<>>
    /\ heap = 0
    /\ lastPopped = NoLastPopped
    /\ executed = NoExecuted
    /\ runErr = ""

NextBody ==
    \/ CallEval
    \/ CallCompile
    \/ VMNew
    \/ ExecOpClosure
    \/ ExecOpPop
    \/ RunReturn

SpecBody == InitBody /\ [][NextBody]_vars

\* The opcode of the last instruction of ins, read from its bytes; -1 when
\* ins has no instruction.
LastOpcode(ins) ==
    LET starts == InstructionStarts(ins, 0)
    IN  IF starts = {} THEN -1
        ELSE ins[(CHOOSE o \in starts : \A q \in starts : q <= o) + 1]

\* The instructions of the body of the program's function literal as they
\* are when Compile(n.Body) returns: in the function's scope, with its
\* parameters defined.
BodyCode(n) ==
    LET c1 == enterScope(NewCompiler)
        c3 == [c1 EXCEPT !.symbolTable = DefineAll(@, n.Parameters, 1)]
    IN  currentInstructions(Compile(c3, n.Body))

\* What the claim makes of the body's instructions.
WithReturn(body) ==
    IF LastOpcode(body) = OpPop
      THEN SubSeq(body, 1, Len(body) - 1) \o <<OpReturnValue>>
    ELSE IF LastOpcode(body) = OpReturnValue THEN body
    ELSE body \o <<OpReturn>>

\* The function the program's literal was compiled to: the last constant.
BodyFunction == bytecode.Constants[Len(bytecode.Constants)].Fn

\* C25: the instructions of every CompiledFunction the compiler emits end
\* with OpReturnValue or OpReturn: a body whose last instruction is OpPop
\* has it replaced by OpReturnValue, a body already ending in OpReturnValue
\* is left as it is, and any other body (an empty one, one ending in a let)
\* gets a trailing OpReturn.
C25_FunctionsEndWithReturn ==
    pc \notin {"parsed", "evaluated"} =>
      /\ compiler.err = ""
      /\ \A k \in 1..Len(bytecode.Constants) :
           bytecode.Constants[k].Type = COMPILED_FUNCTION_OBJ =>
             LastOpcode(bytecode.Constants[k].Fn.Instructions)
               \in {OpReturnValue, OpReturn}
      /\ BodyFunction.Instructions =
           WithReturn(BodyCode(program.Statements[1].Expression))

\* fn(a) { let c = 1; if (true) { 1 } };  is compiled: the OpPop after the
\* if-expression has become the OpReturnValue.  (Make writes no operand of
\* one byte: the operand byte of OpSetLocal stays 0.)
C25_Witness ==
    /\ pc = "compiled"
    /\ program = Program(<<ExpressionStatement(
                     FunctionLiteral(<<"a">>,
                         BlockStatement(<<LetStatement("c", IntegerLiteral(1)),
                                          ExpressionStatement(
                                              IfExpression(Boolean(TRUE),
                                                           BlockOf(IntegerLiteral(1)),
                                                           <<>>))>>),
                         ""))>>)
    /\ BodyFunction.NumLocals = 2
    /\ BodyFunction.Instructions =
         <<OpConstant, 0, 0, OpSetLocal, 0, OpTrue, OpJumpNotTruthy, 0, 15,
           OpConstant, 0, 1, OpJump, 0, 16, OpNull, OpReturnValue>>


-----------------------------------------------------------------------------
(* Names bound by let to a value that refers to them.  The function        *)
(* literals carry the name the parser gives a literal bound by let.        *)

MaxFibArg == 10

\* fn(n) { if (n < 2) { n } else { fib(n - 1) + fib(n - 2) } }, named fib.
FibLiteral ==
    FunctionLiteral(<<"n">>,
        BlockStatement(<<ExpressionStatement(IfExpression(
            InfixExpression(Identifier("n"), "<", IntegerLiteral(2)),
            BlockStatement(<<ExpressionStatement(Identifier("n"))>>),
            <<BlockStatement(<<ExpressionStatement(InfixExpression(
                CallExpression(Identifier("fib"),
                    <<InfixExpression(Identifier("n"), "-", IntegerLiteral(1))>>),
                "+",
                CallExpression(Identifier("fib"),
                    <<InfixExpression(Identifier("n"), "-",
                                      IntegerLiteral(2))>>)))>>)>>))>>),
        "fib")

\* let fib = fn(n) { ... }; fib(k);
FibGlobal(k) ==
    Program(<<LetStatement("fib", FibLiteral),
              ExpressionStatement(CallExpression(Identifier("fib"),
                                                 <<IntegerLiteral(k)>>))>>)

\* fn() { let fib = fn(n) { ... }; fib(k) }();
FibLocal(k) ==
    Program(<<ExpressionStatement(CallExpression(
        FunctionLiteral(<<>>,
            BlockStatement(<<LetStatement("fib", FibLiteral),
                             ExpressionStatement(CallExpression(
                                 Identifier("fib"), <<IntegerLiteral(k)>>))>>),
            ""),
        <<>>))>>)

\* fn() { f }, named f.
SelfLiteral ==
    FunctionLiteral(<<>>, BlockStatement(<<ExpressionStatement(Identifier("f"))>>),
                    "f")

\* f() == f
SelfIsF ==
    ExpressionStatement(InfixExpression(CallExpression(Identifier("f"), <<>>),
                                        "==", Identifier("f")))

\* let f = fn() { f }; f() == f;
SelfGlobal == Program(<<LetStatement("f", SelfLiteral), SelfIsF>>)

\* fn() { let f = fn() { f }; f() == f }();
SelfLocal ==
    Program(<<ExpressionStatement(CallExpression(
        FunctionLiteral(<<>>, BlockStatement(<<LetStatement("f", SelfLiteral),
                                               SelfIsF>>), ""),
        <<>>))>>)

\* let x = x;
LetOfItself == Program(<<LetStatement("x", Identifier("x"))>>)

\* fn() { let y = y + 1; y };
LetOfItselfLocal ==
    Program(<<ExpressionStatement(FunctionLiteral(<<>>,
        BlockStatement(<<LetStatement("y", InfixExpression(Identifier("y"), "+",
                                                           IntegerLiteral(1))),
                         ExpressionStatement(Identifier("y"))>>),
        ""))>>)

FibPrograms == {FibGlobal(k) : k \in 0..MaxFibArg} \cup {FibLocal(k) : k \in 0..MaxFibArg}

SelfPrograms == {SelfGlobal, SelfLocal}

LetPrograms == FibPrograms \cup SelfPrograms \cup {LetOfItself, LetOfItselfLocal}

InitLet ==
    /\ CodecIdle
    /\ FrontIdle
    /\ program \in LetPrograms
    /\ evaluated = Nil
    /\ compiler = NewCompiler
    /\ bytecode = NoBytecode
    /\ pc = "parsed"
    /\ constants = <<>>
    /\ instructions = <<>>
    /\ stack = <<>>
    /\ sp = 0
    /\ frames = <<>>
    /\ framesIndex = 0
    /\ globals = <<>>
    /\ heap = 0
    /\ lastPopped = NoLastPopped
    /\ executed = NoExecuted
    /\ runErr = ""

NextLet ==
    \/ CallEval
    \/ CallCompile
    \/ VMNew
    \/ ExecOpConstant
    \/ ExecBinaryOperation
    \/ ExecComparison
    \/ ExecOpPop
    \/ ExecOpSetGlobal
    \/ ExecOpGetGlobal
    \/ ExecOpJumpNotTruthy
    \/ ExecOpJump
    \/ ExecOpClosure
    \/ ExecOpCall
    \/ ExecOpGetLocal
    \/ ExecOpSetLocal
    \/ ExecOpCurrentClosure
    \/ ExecOpReturnValue
    \/ RunReturn

SpecLet == InitLet /\ [][NextLet]_vars

RECURSIVE Fibonacci(_)
\* The Fibonacci numbers: 0, 1, 1, 2, 3, 5, ...
Fibonacci(k) == IF k < 2 THEN k ELSE Fibonacci(k - 1) + Fibonacci(k - 2)

\* The k of the Fibonacci program p.
FibArgument(p) == CHOOSE k \in 0..MaxFibArg : p \in {FibGlobal(k), FibLocal(k)}

-----------------------------------------------------------------------------
(* A read-compile loop: each line is compiled by a compiler made with      *)
(* NewWithState from the symbol table the loop holds and the constants of  *)
(* the latest line that compiled.  repl.lines keeps, for every line read,  *)
(* the program, the length of the constants it started from, and the       *)
(* Bytecode it gave; repl.before is the symbol table as it was before the  *)
(* latest Compile.                                                         *)

MaxLines == 3

\* A NewWithState that keeps the constants of New.
NewWithStateNoConstants(s, cs) == [NewCompiler EXCEPT !.symbolTable = s]

\* func NewWithState(s *SymbolTable, constants []object.Object) *Compiler
NewWithState(s, cs) == [NewCompiler EXCEPT !.symbolTable = s, !.constants = cs]

RECURSIVE RootTable(_)
\* The table at the end of the Outer chain of s: the one the caller's
\* pointer is to, whatever scope Compile returned in.
RootTable(s) == IF s.Outer = <<>> THEN s ELSE RootTable(s.Outer[1])

\* 1;   2 + 1;   "a";   fn() { 3; "b" };   let x = 1 < 2;   x;
\* let y = z;   y;   1; z;   fn() { fn() { 4 } };
ReplLines ==
    {Program(<<ExpressionStatement(IntegerLiteral(1))>>),
     Program(<<ExpressionStatement(InfixExpression(IntegerLiteral(2), "+",
                                                   IntegerLiteral(1)))>>),
     Program(<<ExpressionStatement(StringLiteral("a"))>>),
     Program(<<ExpressionStatement(FunctionLiteral(<<>>,
         BlockStatement(<<ExpressionStatement(IntegerLiteral(3)),
                          ExpressionStatement(StringLiteral("b"))>>), ""))>>),
     Program(<<LetStatement("x", InfixExpression(IntegerLiteral(1), "<",
                                                 IntegerLiteral(2)))>>),
     Program(<<ExpressionStatement(Identifier("x"))>>),
     Program(<<LetStatement("y", Identifier("z"))>>),
     Program(<<ExpressionStatement(Identifier("y"))>>),
     Program(<<ExpressionStatement(IntegerLiteral(1)),
               ExpressionStatement(Identifier("z"))>>),
     Program(<<ExpressionStatement(FunctionLiteral(<<>>,
         BlockStatement(<<ExpressionStatement(FunctionLiteral(<<>>,
             BlockStatement(<<ExpressionStatement(IntegerLiteral(4))>>),
             ""))>>), ""))>>)}

InitRepl ==
    /\ CodecIdle
    /\ VMIdle
    /\ lexer = <<>>
    /\ parser = <<>>
    /\ env = <<>>
    /\ symbols = <<>>
    /\ program = Program(<<>>)
    /\ evaluated = Nil
    /\ compiler = NewCompiler
    /\ bytecode = NoBytecode
    /\ pc = "idle"
    /\ repl = [symbolTable |-> NewSymbolTable, constants |-> <<>>,
               before |-> NewSymbolTable, lines |-> <<>>]

\* The loop reads and parses its next line.
ReplRead ==
    /\ pc \in {"idle", "compiled", "compile error"}
    /\ Len(repl.lines) < MaxLines
    /\ program' \in ReplLines
    /\ pc' = "parsed"
    /\ UNCHANGED <<evaluated, compiler, bytecode, vmVars, codecVars, lexer, parser,
                   env, symbols, repl>>

\* comp := compiler.NewWithState(symbolTable, constants); comp.Compile(program);
\* on an error the loop goes on to the next line, otherwise it keeps
\* comp.Bytecode().Constants as its constants.
ReplCompile ==
    /\ pc = "parsed"
    /\ compiler' = Compile(NewWithState(repl.symbolTable, repl.constants), program)
    /\ bytecode' = IF compiler'.err # "" THEN NoBytecode ELSE Bytecode(compiler')
    /\ pc' = IF compiler'.err # "" THEN "compile error" ELSE "compiled"
    /\ repl' = [symbolTable |-> RootTable(compiler'.symbolTable),
                constants |-> IF compiler'.err # "" THEN repl.constants
                              ELSE bytecode'.Constants,
                before |-> repl.symbolTable,
                lines |-> Append(repl.lines,
                                 [program |-> program,
                                  start |-> Len(repl.constants),
                                  ok |-> compiler'.err = "",
                                  bytecode |-> bytecode'])]
    /\ UNCHANGED <<program, evaluated, vmVars, codecVars, lexer, parser, env, symbols>>

NextRepl ==
    \/ ReplRead
    \/ ReplCompile

SpecRepl == InitRepl /\ [][NextRepl]_vars

RECURSIVE ConstantOperands(_, _)
\* The operands of the OpConstants and the first operands of the OpClosures
\* of ins from offset o on, in the order of the instructions.
ConstantOperands(ins, o) ==
    IF o >= Len(ins) \/ ins[o + 1] \notin DOMAIN allDefinitions THEN <<>>
    ELSE LET widths == allDefinitions[ins[o + 1]].OperandWidths
             rest == ConstantOperands(ins, o + 1 + WidthSum(widths, Len(widths) + 1))
         IN  IF ins[o + 1] \in {OpConstant, OpClosure}
               THEN <<ReadUint16(SliceFrom(ins, o + 1))>> \o rest
             ELSE rest

\* The nodes Compile is called on for the node n, in the order of the calls.
CompiledChildren(n) ==
    CASE n.node \in {"Program", "BlockStatement"} -> n.Statements
      [] n.node = "ExpressionStatement" -> <<n.Expression>>
      [] n.node = "LetStatement" -> <<n.Value>>
      [] n.node = "FunctionLiteral" -> <<n.Body>>
      [] n.node = "InfixExpression" ->
           IF n.Operator = "<" THEN <<n.Right, n.Left>> ELSE <<n.Left, n.Right>>
      [] OTHER -> <<>>

RECURSIVE ConstantsOf(_)
RECURSIVE ConstantsOfAll(_, _)
\* The number of objects that compiling n adds to the constants: one for a
\* literal, and for a function literal one after those of its body.
ConstantsOf(n) ==
    ConstantsOfAll(CompiledChildren(n), 1)
      + (IF n.node \in {"IntegerLiteral", "StringLiteral", "FunctionLiteral"}
           THEN 1 ELSE 0)

ConstantsOfAll(ns, i) ==
    IF i > Len(ns) THEN 0 ELSE ConstantsOf(ns[i]) + ConstantsOfAll(ns, i + 1)

RECURSIVE IndexesOf(_, _)
RECURSIVE IndexesOfAll(_, _, _)
\* The indexes at which the objects of the nodes under n are stored, for
\* the nodes whose load is emitted in the scope of n, in the order of the
\* loads; base is the length of the constants before n is compiled.
IndexesOf(n, base) ==
    CASE n.node \in {"IntegerLiteral", "StringLiteral"} -> <<base>>
      [] n.node = "FunctionLiteral" -> <<base + ConstantsOf(n.Body)>>
      [] OTHER -> IndexesOfAll(CompiledChildren(n), 1, base)

IndexesOfAll(ns, i, base) ==
    IF i > Len(ns) THEN <<>>
    ELSE IndexesOf(ns[i], base)
           \o IndexesOfAll(ns, i + 1, base + ConstantsOf(ns[i]))

RECURSIVE StoredIn(_, _, _)
RECURSIVE StoredInAll(_, _, _, _)
\* pool holds, from index base on, the objects of the nodes under n in the
\* order they are compiled, and every function among them loads its own
\* constants from the indexes they are stored at.
StoredIn(n, base, pool) ==
    CASE n.node = "IntegerLiteral" ->
           /\ pool[base + 1].Type = INTEGER_OBJ
           /\ pool[base + 1].IntValue = n.IntValue
      [] n.node = "StringLiteral" ->
           /\ pool[base + 1].Type = STRING_OBJ
           /\ pool[base + 1].StrValue = n.StrValue
      [] n.node = "FunctionLiteral" ->
           LET fn == pool[base + ConstantsOf(n.Body) + 1]
           IN  /\ StoredIn(n.Body, base, pool)
               /\ fn.Type = COMPILED_FUNCTION_OBJ
               /\ ConstantOperands(fn.Fn.Instructions, 0) = IndexesOf(n.Body, base)
      [] OTHER -> StoredInAll(CompiledChildren(n), 1, base, pool)

StoredInAll(ns, i, base, pool) ==
    \/ i > Len(ns)
    \/ /\ StoredIn(ns[i], base, pool)
       /\ StoredInAll(ns, i + 1, base + ConstantsOf(ns[i]), pool)

\* The line's constants are where they were put, in pool: pool begins with
\* the line's constants, which are those the line started from and then the
\* objects of its nodes in compile order, and the line's instructions load
\* each from its index.
LineHolds(line, pool) ==
    /\ Len(line.bytecode.Constants) = line.start + ConstantsOf(line.program)
    /\ Len(pool) >= Len(line.bytecode.Constants)
    /\ SubSeq(pool, 1, Len(line.bytecode.Constants)) = line.bytecode.Constants
    /\ StoredIn(line.program, line.start, pool)
    /\ ConstantOperands(line.bytecode.Instructions, 0)
         = IndexesOf(line.program, line.start)

\* C27: constants enter the pool in the order their nodes are compiled and
\* are never moved or removed: the operand of every OpConstant and the
\* first operand of every OpClosure is the index at which addConstant
\* stored that node's object, and it is an index of the same object in the
\* constants of every later line compiled from them with NewWithState.
C27_ConstantsKeepTheirIndex ==
    repl # <<>> =>
        \A i \in 1..Len(repl.lines) :
            repl.lines[i].ok => LineHolds(repl.lines[i], repl.constants)

\* 2 + 1; then a line that fails; then fn() { 3; "b" };  The 2 and the 1
\* are still constants 0 and 1, the 3 and the "b" are 2 and 3 and the
\* function is 4.
C27_Witness ==
    /\ repl # <<>>
    /\ pc = "compiled"
    /\ Len(repl.lines) = 3
    /\ repl.lines[1].ok
    /\ repl.lines[1].bytecode.Instructions =
         <<OpConstant, 0, 0, OpConstant, 0, 1, OpAdd, OpPop>>
    /\ ~repl.lines[2].ok
    /\ Len(repl.lines[2].program.Statements) = 2
    /\ bytecode.Instructions = <<OpClosure, 0, 4, 0, OpPop>>
    /\ Len(repl.constants) = 5
    /\ repl.constants[1].IntValue = 2
    /\ repl.constants[2].IntValue = 1
    /\ repl.constants[5].Fn.Instructions =
         <<OpConstant, 0, 2, OpPop, OpConstant, 0, 3, OpReturnValue>>


\* C28: a Compile that returns an error leaves the symbol table it was
\* given with the definitions it had before the call: no name defined by
\* the statement that failed is resolvable afterwards.
C28_FailedCompileDefinesNothing ==
    pc = "compile error" =>
        /\ repl.symbolTable = repl.before
        /\ \A name \in {"x", "y", "z"} :
               Resolve(repl.symbolTable, name).ok = Resolve(repl.before, name).ok


\* C29: running the bytecode the compiler produced, the VM never pops with
\* sp = 0: when OpPop, OpSetGlobal or OpJumpNotTruthy is executed the
\* expression before it has left its value on the stack, also for an
\* if-expression whose consequence or alternative is empty or ends in a let.
C29_NeverPopsEmptyStack ==
    /\ executed.op \in {OpPop, OpSetGlobal, OpJumpNotTruthy} => executed.sp > 0
    /\ pc # "panicked"


-----------------------------------------------------------------------------
(* A caller that asks the lexer for token after token and counts: calls    *)
(* is the number of NextToken calls so far, before the position the latest *)
(* call started from, and firstEOF the call that first returned EOF (0     *)
(* while none has).                                                        *)

\* l := lexer.New(input)
DrainNew ==
    /\ pc = "source"
    /\ \E input \in LexerInputs :
          lexer' = [l |-> NewLexer(input), tok |-> NoToken, seen |-> 0,
                    failed |-> FALSE, calls |-> 0, before |-> 0, firstEOF |-> 0]
    /\ pc' = "lexing"
    /\ UNCHANGED <<parser, env, symbols, repl, program, evaluated, compiler, bytecode,
                   vmVars, codecVars>>

\* tok := l.NextToken(), counted.
DrainNextToken ==
    /\ pc = "lexing"
    /\ ~lexer.failed
    /\ lexer.calls < Len(lexer.l.input) + MaxPast
    /\ LET r == NextToken(lexer.l)
       IN  lexer' = [l |-> r.l, tok |-> r.tok, seen |-> r.seen, failed |-> r.failed,
                     calls |-> lexer.calls + 1,
                     before |-> lexer.l.position,
                     firstEOF |-> IF lexer.firstEOF = 0 /\ r.tok.Type = EOF
                                    THEN lexer.calls + 1
                                  ELSE lexer.firstEOF]
    /\ UNCHANGED <<pc, parser, env, symbols, repl, program, evaluated, compiler,
                   bytecode, vmVars, codecVars>>

NextDrain == DrainNew \/ DrainNextToken

SpecDrain == InitSource /\ [][NextDrain]_vars

\* C30: a NextToken call never moves the lexer backwards, and one that
\* returns a token other than EOF has consumed at least one byte of the
\* input; so on an input of n bytes EOF is returned by call n + 1 at the
\* latest.
C30_EveryTokenAdvances ==
    (pc = "lexing" /\ lexer.calls > 0) =>
        /\ ~lexer.failed
        /\ lexer.l.position >= lexer.before
        /\ lexer.l.readPosition = lexer.l.position + 1
        /\ lexer.tok.Type # EOF =>
             /\ lexer.l.position > lexer.before
             /\ lexer.l.position <= Len(lexer.l.input)
        /\ lexer.calls > Len(lexer.l.input) =>
             lexer.firstEOF \in 1..(Len(lexer.l.input) + 1)

\* "+@+": three calls return PLUS, ILLEGAL and PLUS, one byte each, and the
\* fourth is the first to return EOF.
C30_Witness ==
    /\ pc = "lexing"
    /\ lexer.l.input = <<43, 64, 43>>
    /\ lexer.calls = 4
    /\ lexer.before = 3
    /\ lexer.tok.Type = EOF
    /\ lexer.firstEOF = 4

=============================================================================
